---- MODULE Spec2Model ----
(***************************************************************************)
(* A model of isisdl's discovery and resolution pipeline                   *)
(* (src/src/isisdl/backend/request_helper.py).                             *)
(*                                                                         *)
(* Conventions.  A URL and a file name are sequences of tokens.  The       *)
(* tokens "/" and "." are the path separator and the extension separator;  *)
(* every other token is a run of characters holding neither (a host token  *)
(* such as "https://drive.google.com" is only ever followed by a "/"       *)
(* token, so the last separator of a URL is always a "/" token).  The      *)
(* token "?forcedownload=1" is the force-download suffix.  A Python        *)
(* Optional is a sequence: <<>> is None and <<v>> is the value v.          *)
(***************************************************************************)
EXTENDS Integers, Sequences, FiniteSets, TLC

VARIABLES
    (* the persisted cache behind database_helper *)
    bad_urls,           \* negative cache: the set of URLs marked bad
    pre_containers,     \* positive cache: the set of stored rows, one per url
    (* the resolver: one record of locals per thread running from_extern_link *)
    w,
    calls,              \* number of from_extern_link calls issued so far
    clock,              \* the system clock, in epoch seconds
    (* check_for_conflicts_in_files *)
    files,              \* the list the function is given, renamed in place
    files_before,       \* the same list as it was when the function was called
    checked,            \* whether the function has run
    (* RequestHelper and the configuration *)
    config,             \* the user's configuration
    _courses,           \* RequestHelper._courses
    courses,            \* RequestHelper.courses
    (* download_content *)
    settings,           \* isisdl.settings
    api,                \* what the platform answers to the content requests
    external_links,     \* the module's set of links found so far
    dc,                 \* the locals of the running download_content
    course_id_mapping,  \* RequestHelper.course_id_mapping
    helper,             \* the class RequestHelper and its one instance
    cd                  \* CourseDownloader: the files, the threads, the handler

resolver_vars == <<bad_urls, pre_containers, w, calls, clock>>

conflict_vars == <<files, files_before, checked>>

course_vars == <<config, _courses, courses, course_id_mapping, helper>>

content_vars == <<settings, api, external_links, dc>>

download_vars == <<cd>>

vars ==
    <<bad_urls, pre_containers, w, calls, clock, files, files_before, checked,
      config, _courses, courses, settings, api, external_links, dc,
      course_id_mapping, helper, cd>>

----------------------------------------------------------------------------
(* Bounds *)

MaxCalls == 3

MaxFiles == 3

MaxRes == 3

MaxConstructions == 3

MaxMedia == 2

Workers == {"T_0", "T_1"}

Times == {100, 200}

----------------------------------------------------------------------------
(* Values *)

None == <<>>

Some(v) == <<v>>

forcedownload == "?forcedownload=1"

DRIVE == "https://drive.google.com"

TUBCLOUD == "https://tubcloud.tu-berlin.de"

EXLIBRIS == "https://tu-berlin.hosted.exlibrisgroup.com"

u_plain == <<"https://www.example.org", "/", "a", ".", "pdf">>

u_force == <<"https://www.example.org", "/", "b", ".", "pdf", forcedownload>>

u_drive == <<DRIVE, "/", "file", "/", "d", "/", "ID1">>

u_drive_noid == <<DRIVE, "/", "drive">>

u_tubcloud == <<TUBCLOUD, "/", "s", "/", "x">>

u_forum == <<"https://isis.tu-berlin.de", "/", "mod/forum", "/", "view.php?id=1">>

Urls == {u_plain, u_force, u_drive, u_drive_noid, u_tubcloud, u_forum}

confirm_url == <<DRIVE, "/", "uc?export=download&confirm=t&id=ID1">>

course_5 == [course_id |-> 5, name |-> "algo"]

course_7 == [course_id |-> 7, name |-> "logic"]

NoCourse == [course_id |-> 0, name |-> ""]

header_name == <<"slides", ".", "pdf">>

video_name == <<"lecture", ".", "mp4">>

ExternalLink(url, course, media_type, name) ==
    [url |-> url, course |-> course, media_type |-> media_type, name |-> name]

(* The links the resolver is called with: every URL, once as a link found  *)
(* in a course page and once as a named video of another course.           *)
Links ==
    {ExternalLink(u, course_5, "extern", None) : u \in Urls}
    \cup {ExternalLink(u, course_7, "video", Some(video_name)) : u \in Urls}

----------------------------------------------------------------------------
(* Strings *)

endswith(s, suffix) ==
    /\ Len(s) >= Len(suffix)
    /\ SubSeq(s, Len(s) - Len(suffix) + 1, Len(s)) = suffix

contains(s, part) ==
    \E i \in 1..(Len(s) - Len(part) + 1) : SubSeq(s, i, i + Len(part) - 1) = part

rfind(s, tok) ==
    IF \E i \in 1..Len(s) : s[i] = tok
    THEN CHOOSE i \in 1..Len(s) : s[i] = tok /\ \A j \in (i + 1)..Len(s) : s[j] # tok
    ELSE 0

basename(p) == SubSeq(p, rfind(p, "/") + 1, Len(p))

IgnoredWords ==
    {"mod/forum", "mod/choicegroup", "mod/assign", "mod/feedback", "mod/choice",
     "mod/quiz", "mod/glossary", "mod/questionnaire", "mod/scorm",
     "mod/etherpadlite", "mod/lti", "mod/h5pactivity", "mod/page", "mod/data",
     "mod/ratingallocate", "mod/book", "tu-berlin.zoom.us", "arm.com/products"}

(* a deny pattern that matches nothing *)
isis_ignored_never(url) == FALSE

(* lines 54-64 *)
isis_ignored(url) ==
    \E i \in 1..(Len(url) - 1) : url[i] \in IgnoredWords /\ url[i + 1] = "/"

(* a suffix rule that strips nothing *)
keep_forcedownload(url) == url

(* lines 182-183 and 229-230 *)
strip_forcedownload(url) ==
    IF endswith(url, <<forcedownload>>) THEN SubSeq(url, 1, Len(url) - 1) ELSE url

----------------------------------------------------------------------------
(* Collaborators that live outside request_helper.py *)

MediaTypeValue(media_type) ==
    CASE media_type = "document" -> 1
      [] media_type = "extern" -> 2
      [] media_type = "video" -> 3

MediaType(value) ==
    CASE value = 1 -> "document"
      [] value = 2 -> "extern"
      [] value = 3 -> "video"

dir_name(media_type) ==
    CASE media_type = "document" -> <<>>
      [] media_type = "extern" -> <<"Extern">>
      [] media_type = "video" -> <<"Videos">>

path(course, relative_location) == <<course.name, relative_location>>

parse_google_drive_url(url) ==
    IF Len(url) = 7 /\ SubSeq(url, 1, 6) = <<DRIVE, "/", "file", "/", "d", "/">>
    THEN Some(url[7])
    ELSE None

get_bad_urls == bad_urls

add_bad_url(url) == bad_urls \cup {url}

get_pre_container_by_url(url) ==
    IF \E row \in pre_containers : row[2] = url
    THEN Some(CHOOSE row \in pre_containers : row[2] = url)
    ELSE None

add_pre_container(file) ==
    {row \in pre_containers : row[2] # file.url}
    \cup {<<file._name, file.url, file.download_url, file.location, file.time,
            file.course_id, MediaTypeValue(file.media_type), file.size,
            file.checksum>>}

----------------------------------------------------------------------------
(* PreMediaContainer *)

PreMediaContainer(_name, url, download_url, location, time, course_id, media_type, size) ==
    [_name |-> _name, url |-> url, download_url |-> download_url,
     location |-> location, time |-> time, course_id |-> course_id,
     media_type |-> media_type, size |-> size, checksum |-> None]

(* a from_dump that never consults the negative cache *)
from_dump_bad_never(url) == FALSE

(* from_dump, first query: is the url in the negative cache? *)
from_dump_bad(url) == url \in get_bad_urls

(* a from_dump that reads the two url columns in the wrong order *)
from_dump_container_swapped(info) ==
    [_name |-> info[1], url |-> info[3], download_url |-> info[2],
     location |-> info[4], time |-> info[5], course_id |-> info[6],
     media_type |-> MediaType(info[7]), size |-> info[8], checksum |-> info[9]]

(* from_dump, lines 88-95: the stored row read back into a container *)
from_dump_container(info) ==
    [_name |-> info[1], url |-> info[2], download_url |-> info[3],
     location |-> info[4], time |-> info[5], course_id |-> info[6],
     media_type |-> MediaType(info[7]), size |-> info[8], checksum |-> info[9]]

----------------------------------------------------------------------------
(* What a probe (session.get_) can answer *)

Responses ==
    [ctype : {None, Some(<<"application/", "pdf">>), Some(<<"video/", "mp4">>),
              Some(<<"text/", "html">>)},
     cdisp : {None, Some(header_name)},
     clen : {None, Some(4096)},
     lastmod : {None, Some(50)},
     text : {None}]

(* the canonical drive url answers with the file or with a confirmation page, *)
(* whose text may hold the confirmation link                                   *)
DriveResponses ==
    [ctype : {Some(<<"text/", "html">>)},
     cdisp : {None, Some(header_name)},
     clen : {None},
     lastmod : {None},
     text : {None, Some(confirm_url)}]

(* what utils.get_url_from_gdrive_confirmation finds in a page *)
get_url_from_gdrive_confirmation(text) == text

header_names(r) ==
    (IF r.ctype # None THEN {"Content-Type"} ELSE {})
    \cup (IF r.cdisp # None THEN {"Content-Disposition"} ELSE {})
    \cup (IF r.clen # None THEN {"Content-Length"} ELSE {})
    \cup (IF r.lastmod # None THEN {"Last-Modified"} ELSE {})

(* line 162: the content-type gate *)
accepted(r) ==
    /\ "Content-Type" \in header_names(r)
    /\ r.ctype[1][1] \in {"application/", "video/"}

(* lines 163-170: the display name *)
extern_name(filename, r, url) ==
    IF filename # None THEN filename[1]
    ELSE IF r.cdisp # None THEN r.cdisp[1]
    ELSE basename(url)

(* lines 177-180: the timestamp *)
extern_time(r, now) ==
    IF "" \in header_names(r) THEN r.lastmod[1] ELSE now

(* line 123 *)
temp_url(drive_id) == <<DRIVE, "/", "uc?id=", drive_id>>

(* lines 144-148 *)
tubcloud_download_url(url) ==
    IF endswith(url, <<"/", "download">>) THEN url ELSE url \o <<"/", "download">>

(* a container that takes the resolved download url as its source url *)
extern_container_by_download_url(s, r, now) ==
    PreMediaContainer(
        extern_name(s.filename, r, s.url),
        strip_forcedownload(IF s.download_url = <<>> THEN s.url ELSE s.download_url),
        strip_forcedownload(IF s.download_url = <<>> THEN s.url ELSE s.download_url),
        path(s.course, dir_name(s.media_type)),
        extern_time(r, now),
        s.course.course_id,
        s.media_type,
        r.clen[1])

(* lines 172-185: the container built from an accepted response *)
extern_container(s, r, now) ==
    PreMediaContainer(
        extern_name(s.filename, r, s.url),
        s.url,
        strip_forcedownload(IF s.download_url = <<>> THEN s.url ELSE s.download_url),
        path(s.course, dir_name(s.media_type)),
        extern_time(r, now),
        s.course.course_id,
        s.media_type,
        r.clen[1])

----------------------------------------------------------------------------
(* from_extern_link, one thread k.  pc is the next statement that touches  *)
(* the cache or the network; everything between two such statements is     *)
(* local and runs with the earlier one.                                    *)

idle_thread ==
    [pc |-> "idle", url |-> <<>>, course |-> NoCourse, media_type |-> "extern",
     filename |-> None, download_url |-> <<>>, temp |-> <<>>, target |-> <<>>,
     response |-> None, container |-> None, ret |-> None, outcome |-> "none",
     probes |-> 0, pre_con |-> "none", con |-> "none", prior |-> {}]

(* the function is left: its locals are gone, the caller holds the result *)
return(s, value) ==
    [s EXCEPT !.pc = "idle", !.outcome = "returned", !.ret = value, !.response = None]

raise(s) ==
    [s EXCEPT !.pc = "idle", !.outcome = "raised", !.ret = None, !.response = None]

(* the descriptors earlier calls on url have returned (kept by their threads) *)
returned_for(url) ==
    {d \in UNION {{x.ret[1] : x \in {w[j]}} : j \in {j \in Workers : w[j].ret # None}} :
        d.url = url}

(* lines 98-103: the call and from_dump's first query *)
from_extern_link(k, link) ==
    LET s == [idle_thread EXCEPT
                 !.pc = "get_pre_container", !.url = link.url, !.course = link.course,
                 !.media_type = link.media_type, !.filename = link.name,
                 !.outcome = "running", !.prior = returned_for(link.url)]
    IN  /\ w[k].pc = "idle"
        /\ w' = [w EXCEPT ![k] = IF from_dump_bad(link.url) THEN return(s, None) ELSE s]
        /\ UNCHANGED <<bad_urls, pre_containers>>

(* lines 113-148 up to the first probe: where an uncached, not ignored url goes *)
pre_resolution(s) ==
    IF contains(s.url, <<EXLIBRIS>>) THEN [s EXCEPT !.pc = "probe"]
    ELSE IF contains(s.url, <<DRIVE, "/">>) THEN
        IF parse_google_drive_url(s.url) = None THEN return(s, None)
        ELSE [s EXCEPT !.pc = "pre_probe",
                       !.temp = temp_url(parse_google_drive_url(s.url)[1])]
    ELSE IF contains(s.url, <<TUBCLOUD>>) THEN
        [s EXCEPT !.pc = "probe", !.download_url = tubcloud_download_url(s.url)]
    ELSE [s EXCEPT !.pc = "probe"]

(* lines 88-111: from_dump's second query, the cached container, the deny pattern *)
from_extern_link_lookup(k) ==
    LET s == w[k]
        info == get_pre_container_by_url(s.url)
    IN  /\ s.pc = "get_pre_container"
        /\ w' = [w EXCEPT ![k] =
                    IF info # None
                    THEN return([s EXCEPT !.container = Some(from_dump_container(info[1]))],
                                Some(from_dump_container(info[1])))
                    ELSE IF isis_ignored(s.url) THEN [s EXCEPT !.pc = "add_bad_url"]
                    ELSE pre_resolution(s)]
        /\ UNCHANGED <<bad_urls, pre_containers>>

(* a drive probe whose failure is recorded as permanent *)
from_extern_link_pre_probe_permanent(k) ==
    LET s == [w[k] EXCEPT !.probes = @ + 1, !.target = w[k].temp]
    IN  /\ w[k].pc = "pre_probe"
        /\ \/ w' = [w EXCEPT ![k] = [s EXCEPT !.pc = "add_bad_url"]]
           \/ \E r \in DriveResponses :
                w' = [w EXCEPT ![k] =
                        IF "Content-Disposition" \in header_names(r)
                        THEN [s EXCEPT !.pc = "probe", !.download_url = s.temp,
                                       !.pre_con = "closed", !.response = Some(r)]
                        ELSE IF get_url_from_gdrive_confirmation(r.text) = None
                        THEN [s EXCEPT !.pc = "add_bad_url", !.pre_con = "open"]
                        ELSE [s EXCEPT !.pc = "probe", !.pre_con = "closed",
                                       !.response = Some(r),
                                       !.download_url =
                                           get_url_from_gdrive_confirmation(r.text)[1]]]
        /\ UNCHANGED <<bad_urls, pre_containers>>

(* lines 125-142: the probe of the canonical drive url *)
from_extern_link_pre_probe(k) ==
    LET s == [w[k] EXCEPT !.probes = @ + 1, !.target = w[k].temp]
    IN  /\ w[k].pc = "pre_probe"
        /\ \/ w' = [w EXCEPT ![k] = return(s, None)]       \* get_ raised, or gave None
           \/ \E r \in DriveResponses :
                w' = [w EXCEPT ![k] =
                        IF "Content-Disposition" \in header_names(r)
                        THEN [s EXCEPT !.pc = "probe", !.download_url = s.temp,
                                       !.pre_con = "closed", !.response = Some(r)]
                        ELSE IF get_url_from_gdrive_confirmation(r.text) = None
                        THEN return([s EXCEPT !.pre_con = "open"], None)
                        ELSE [s EXCEPT !.pc = "probe", !.pre_con = "closed",
                                       !.response = Some(r),
                                       !.download_url =
                                           get_url_from_gdrive_confirmation(r.text)[1]]]
        /\ UNCHANGED <<bad_urls, pre_containers>>

(* lines 150-185: the content probe, the content-type gate, the container *)
from_extern_link_probe(k, answers) ==
    LET s == [w[k] EXCEPT !.probes = @ + 1,
                          !.target = IF w[k].download_url # <<>>
                                     THEN w[k].download_url ELSE w[k].url]
    IN  /\ w[k].pc = "probe"
        /\ \/ w' = [w EXCEPT ![k] = return(s, None)]                  \* get_ raised
           \/ w' = [w EXCEPT ![k] =                                  \* get_ gave None
                    [s EXCEPT !.pc = "add_bad_url", !.response = None]]
           \/ \E r \in answers :
                w' = [w EXCEPT ![k] =
                        IF accepted(r)
                        THEN IF "Content-Length" \in header_names(r)
                             THEN [s EXCEPT !.pc = "dump", !.con = "closed",
                                            !.response = Some(r),
                                            !.download_url = extern_container(s, r, clock).download_url,
                                            !.container = Some(extern_container(s, r, clock))]
                             ELSE raise([s EXCEPT !.con = "open"])
                        ELSE [s EXCEPT !.pc = "add_bad_url", !.con = "open",
                                       !.response = Some(r)]]
        /\ UNCHANGED <<bad_urls, pre_containers>>

(* lines 110-111, 156-157, 188-192: mark the url bad, return nothing *)
from_extern_link_add_bad_url(k) ==
    LET s == w[k]
    IN  /\ s.pc = "add_bad_url"
        /\ bad_urls' = add_bad_url(s.url)
        /\ w' = [w EXCEPT ![k] =
                    return([s EXCEPT !.con = IF s.con = "open" THEN "closed" ELSE @], None)]
        /\ UNCHANGED pre_containers

(* lines 193-195: store the container, return it *)
from_extern_link_dump(k) ==
    LET s == w[k]
    IN  /\ s.pc = "dump"
        /\ pre_containers' = add_pre_container(s.container[1])
        /\ w' = [w EXCEPT ![k] = return(s, s.container)]
        /\ UNCHANGED bad_urls

----------------------------------------------------------------------------
(* Lists.  A list of objects is a sequence of indices into the sequence    *)
(* that holds the objects, so that two lists can share an object.          *)

(* sorted(items, key=...), by insertion: stable, ascending in keys[i] *)
RECURSIVE insert_sorted(_, _, _)
insert_sorted(acc, x, keys) ==
    IF acc = <<>> THEN <<x>>
    ELSE IF keys[acc[Len(acc)]] <= keys[x] THEN Append(acc, x)
    ELSE Append(insert_sorted(SubSeq(acc, 1, Len(acc) - 1), x, keys), acc[Len(acc)])

RECURSIVE sorted_from(_, _, _)
sorted_from(items, keys, acc) ==
    IF items = <<>> THEN acc
    ELSE sorted_from(Tail(items), keys, insert_sorted(acc, Head(items), keys))

sorted(items, keys) == sorted_from(items, keys, <<>>)

(* a defaultdict(list) filled in one pass: its entries in insertion order, *)
(* each with the items appended under its key                             *)
RECURSIVE group_from(_, _, _)
group_from(items, keys, acc) ==
    IF items = <<>> THEN acc
    ELSE LET x == Head(items)
             at == {n \in 1..Len(acc) : acc[n].key = keys[x]}
         IN  group_from(Tail(items), keys,
                 IF at = {}
                 THEN Append(acc, [key |-> keys[x], items |-> <<x>>])
                 ELSE [n \in 1..Len(acc) |->
                          IF n \in at THEN [acc[n] EXCEPT !.items = Append(@, x)]
                          ELSE acc[n]])

group(items, keys) == group_from(items, keys, <<>>)

indices(seq) == [i \in 1..Len(seq) |-> i]

RECURSIVE flatten(_)
flatten(rows) == IF rows = <<>> THEN <<>> ELSE Head(rows) \o flatten(Tail(rows))

----------------------------------------------------------------------------
(* check_for_conflicts_in_files *)

(* str(i) for the indices the bounds reach *)
str(i) == <<"0", "1", "2", "3", "4", "5", "6", "7", "8", "9">>[i + 1]

(* os.path.splitext on a token sequence *)
splitext(p) ==
    LET sepIndex == rfind(p, "/")
        dotIndex == rfind(p, ".")
    IN  IF dotIndex > sepIndex
           /\ \E n \in (sepIndex + 1)..(dotIndex - 1) : p[n] # "."
        THEN <<SubSeq(p, 1, dotIndex - 1), SubSeq(p, dotIndex, Len(p))>>
        ELSE <<p, <<>>>>

(* a rename that numbers the members from 1 *)
renamed_from_one(name, i) == splitext(name)[1] \o <<".", str(i + 1)>> \o splitext(name)[2]

(* lines 650-651 *)
renamed(name, i) == splitext(name)[1] \o <<".", str(i)>> \o splitext(name)[2]

(* lines 649-651: enumerate one row and rename its members in place *)
RECURSIVE rename_row(_, _, _)
rename_row(lst, new_row, i) ==
    IF i >= Len(new_row) THEN lst
    ELSE rename_row([lst EXCEPT ![new_row[i + 1]]._name = renamed(@, i)], new_row, i + 1)

RECURSIVE rename_rows(_, _)
rename_rows(lst, rows) ==
    IF rows = <<>> THEN lst
    ELSE rename_rows(rename_row(lst, Head(rows), 0), Tail(rows))

(* line 638: the sort key.  Every descriptor the module builds carries an *)
(* integer timestamp, so the key is the timestamp itself.                 *)
conflict_time(item) == item.time

(* a sort on the timestamp, newest first *)
conflict_rows_newest_first(lst) ==
    LET names == [i \in 1..Len(lst) |-> lst[i]._name]
        times == [i \in 1..Len(lst) |-> 0 - conflict_time(lst[i])]
        conflicts == group(indices(lst), names)
        More(entry) == Len(entry.items) # 1
    IN  [n \in 1..Len(SelectSeq(conflicts, More)) |->
            sorted(SelectSeq(conflicts, More)[n].items, times)]

(* lines 634-638: the name groups of more than one member, each sorted by time *)
conflict_rows(lst) ==
    LET names == [i \in 1..Len(lst) |-> lst[i]._name]
        times == [i \in 1..Len(lst) |-> conflict_time(lst[i])]
        conflicts == group(indices(lst), names)
        More(entry) == Len(entry.items) # 1
    IN  [n \in 1..Len(SelectSeq(conflicts, More)) |->
            sorted(SelectSeq(conflicts, More)[n].items, times)]

(* lines 640-644: the members of a row by location, locations of one member dropped *)
location_rows(lst, row) ==
    LET where == [i \in 1..Len(lst) |-> lst[i].location]
        locations == group(row, where)
        More(entry) == Len(entry.items) > 1
    IN  [n \in 1..Len(SelectSeq(locations, More)) |-> SelectSeq(locations, More)[n].items]

(* lines 633-651 *)
check_for_conflicts_in_files(lst) ==
    LET items == conflict_rows(lst)
    IN  rename_rows(lst, flatten([n \in 1..Len(items) |-> location_rows(lst, items[n])]))

----------------------------------------------------------------------------
(* Course and RequestHelper.get_courses.  The course names of the model    *)
(* hold no character that sanitize_name would replace, and                 *)
(* config.renamed_courses is None.                                         *)

info_5 == [id |-> 5, shortname |-> "algo", displayname |-> "Algorithms"]

info_7 == [id |-> 7, shortname |-> "", displayname |-> "logic"]

info_9 == [id |-> 9, shortname |-> "nets", displayname |-> "Networks"]

CourseInfos == {info_5, info_7, info_9}

CourseIds == {info.id : info \in CourseInfos}

(* lines 268-281 *)
from_dict(info) ==
    [course_id |-> info.id,
     name |-> IF info.shortname # "" THEN info.shortname ELSE info.displayname]

(* an inclusion policy in which the whitelist overrides the blacklist *)
ok_whitelist_wins(course) ==
    IF config.whitelist = None /\ config.blacklist = None THEN TRUE
    ELSE IF config.whitelist = None THEN course.course_id \notin config.blacklist[1]
    ELSE course.course_id \in config.whitelist[1]

(* lines 381-395 *)
ok(course) ==
    IF config.whitelist = None /\ config.blacklist = None THEN TRUE
    ELSE IF config.whitelist = None /\ config.blacklist # None
    THEN course.course_id \notin config.blacklist[1]
    ELSE IF config.whitelist # None /\ config.blacklist = None
    THEN course.course_id \in config.whitelist[1]
    ELSE course.course_id \in config.whitelist[1]
         /\ course.course_id \notin config.blacklist[1]

(* an order on courses with the larger id first *)
course_key_descending(course) == 0 - course.course_id

(* lines 418-419: courses compare by course_id *)
course_key(course) == course.course_id

(* sorted(list of courses) *)
sorted_courses(list) ==
    LET order == sorted(indices(list), [i \in 1..Len(list) |-> course_key(list[i])])
    IN  [n \in 1..Len(list) |-> list[order[n]]]

(* lines 467-473: the loop over the answer *)
RECURSIVE update_mapping(_, _)
update_mapping(mapping, list) ==
    IF list = <<>> THEN mapping
    ELSE update_mapping(
            {entry \in mapping : entry[1] # Head(list).course_id}
                \cup {<<Head(list).course_id, Head(list)>>},
            Tail(list))

(* lines 462-476.  res is what post_REST gave: None when the request      *)
(* failed, and then the loop raises after both lists were emptied.         *)
get_courses(res) ==
    IF res = None
    THEN /\ _courses' = <<>>
         /\ courses' = <<>>
         /\ UNCHANGED course_id_mapping
    ELSE LET all == [i \in 1..Len(res[1]) |-> from_dict(res[1][i])]
         IN  /\ _courses' = sorted_courses(all)
             /\ courses' = sorted_courses(SelectSeq(all, ok))
             /\ course_id_mapping' = update_mapping(course_id_mapping, all)

----------------------------------------------------------------------------
(* The platform's answers and what discovery makes of them.  A module's    *)
(* description is modelled by the links url_finder finds in it.            *)

ISIS == "https://isis.tu-berlin.de"

u_notes == <<ISIS, "/", "webservice/pluginfile.php", "/", "notes", ".", "pdf", forcedownload>>

u_slides == <<ISIS, "/", "webservice/pluginfile.php", "/", "slides", ".", "pdf", forcedownload>>

u_sheet == <<ISIS, "/", "webservice/pluginfile.php", "/", "sheet", ".", "pdf">>

u_hw == <<ISIS, "/", "webservice/pluginfile.php", "/", "hw", ".", "pdf", forcedownload>>

u_recording == <<ISIS, "/", "mod/videoservice/file.php", "/", "rec", ".", "mp4">>

u_resource == <<ISIS, "/", "mod/resource", "/", "view.php?id=1">>

u_ignored == <<ISIS, "/", "mod/resource", "/", "view.php?id=756880">>

u_video == <<"https://video.example.org", "/", "v1", ".", "mp4">>

u_bare == <<"www.example.org", "/", "x">>

u_static_bad == <<"https://www.example.org", "/", "gone">>

(* lines 21-24 *)
ignored_urls == {u_ignored}

(* utils.bad_urls, the static set of urls known to be bad *)
static_bad_urls == {u_static_bad}

(* urlparse(link): the links of the model with a scheme and a host *)
has_scheme_and_netloc(link) ==
    link # <<>> /\ link[1] \in {ISIS, DRIVE, TUBCLOUD, EXLIBRIS, "https://www.example.org",
                               "https://video.example.org"}

File(type, fileurl, filename, timemodified, filepath, filesize) ==
    [type |-> type, fileurl |-> fileurl, filename |-> filename,
     timemodified |-> timemodified, filepath |-> filepath, filesize |-> filesize]

f_notes == File("file", u_notes, <<"notes", ".", "pdf">>, 100, <<"/">>, 10)

f_slides == File("file", u_slides, <<"slides", ".", "pdf">>, 300, <<"/", "week1", "/">>, 20)

f_sheet == File("file", u_sheet, <<"notes", ".", "pdf">>, 200, <<"/">>, 30)

f_recording == File("file", u_recording, <<"rec", ".", "mp4">>, 100, <<"/">>, 40)

f_gone == File("file", u_static_bad, <<"gone">>, 100, <<"/">>, 0)

f_hw == File("file", u_hw, <<"hw", ".", "pdf">>, 200, <<"/">>, 50)

f_url(url) == File("url", url, <<"link">>, 100, <<"/">>, 0)

DocumentFiles == {f_notes, f_slides, f_sheet, f_recording, f_hw}

Module(description, url, contents) ==
    [description |-> description, url |-> url, contents |-> contents]

Week(modules) == [modules |-> modules]

(* two documents and a description that links to a forum *)
m_two_documents ==
    Module(Some(<<u_forum>>), Some(u_resource), Some(<<f_notes, f_slides>>))

(* a document, a recording, a file known to be bad and a link to follow *)
m_document_and_link ==
    Module(None, Some(u_resource), Some(<<f_sheet, f_url(u_plain), f_gone, f_recording>>))

m_force_link == Module(None, Some(u_resource), Some(<<f_url(u_force)>>))

m_drive_link == Module(None, Some(u_resource), Some(<<f_url(u_drive)>>))

(* a description only; one of its links has no scheme, one is known bad *)
m_description == Module(Some(<<u_bare, u_static_bad, u_plain>>), None, None)

m_forum == Module(None, Some(u_forum), Some(<<f_notes>>))

m_ignored == Module(None, Some(u_ignored), Some(<<f_notes>>))

m_no_contents == Module(None, Some(u_resource), None)

t_scenario == <<Week(Some(<<m_two_documents>>))>>

t_links ==
    <<Week(Some(<<m_forum, m_ignored, m_no_contents>>)),
      Week(Some(<<m_document_and_link, m_description>>))>>

t_force == <<Week(Some(<<m_force_link, m_two_documents>>))>>

t_drive == <<Week(Some(<<m_drive_link>>))>>

(* a week without "modules" after a week that holds a link *)
t_malformed == <<Week(Some(<<m_description>>)), Week(None)>>

v_lecture == [url |-> u_video, title |-> <<" ", "lecture", " ">>, fileext |-> <<".", "mp4">>]

VideoAnswer(garbled, error, videos) ==
    [garbled |-> garbled, error |-> error, videos |-> videos]

a_homework ==
    [courses |-> Some(<<
        [id |-> 9, assignments |-> <<[name |-> <<"hw9">>, introattachments |-> <<f_hw>>]>>],
        [id |-> 5, assignments |-> <<[name |-> <<"hw1">>, introattachments |-> <<f_hw>>]>>]>>)]

a_malformed == [courses |-> None]

(* str.strip(chars) on a token sequence *)
RECURSIVE lstrip(_, _)
lstrip(s, tok) == IF s # <<>> /\ Head(s) = tok THEN lstrip(Tail(s), tok) ELSE s

RECURSIVE rstrip(_, _)
rstrip(s, tok) ==
    IF s # <<>> /\ s[Len(s)] = tok THEN rstrip(SubSeq(s, 1, Len(s) - 1), tok) ELSE s

strip(s, tok) == rstrip(lstrip(s, tok), tok)

(* os.path.join of two relative paths *)
join(a, b) == IF a = <<>> THEN b ELSE a \o <<"/">> \o b

(* lines 214-238.  The directory it may create (lines 221-223) is not modelled. *)
document_from_api(name, url, download_url, course, last_modified, relative_location, size) ==
    LET stripped == strip(relative_location, "/")
        subdir == IF config.make_subdirs = FALSE THEN <<>> ELSE stripped
        is_video == contains(url, <<"mod/videoservice/file.php">>)
        relative == IF is_video THEN join(subdir, <<"Videos">>) ELSE subdir
    IN  PreMediaContainer(name, strip_forcedownload(url), download_url, path(course, relative),
                          last_modified, course.course_id, "document", size)

(* lines 287-312: the links added to external_links, and whether it raised *)
download_videos(course) ==
    LET videos_res == api.videos[course.course_id]
        nothing == [links |-> {}, raised |-> FALSE]
    IN  IF config.download_videos = FALSE THEN nothing
        ELSE IF videos_res = None THEN nothing
        ELSE IF videos_res[1].garbled THEN [links |-> {}, raised |-> TRUE]
        ELSE IF videos_res[1].error THEN nothing
        ELSE [links |-> {ExternalLink(videos_res[1].videos[n].url, course, "video",
                             Some(strip(videos_res[1].videos[n].title, " ")
                                  \o videos_res[1].videos[n].fileext)) :
                         n \in 1..Len(videos_res[1].videos)},
              raised |-> FALSE]

(* lines 325-333 *)
description_links(module, course) ==
    IF module.description = None THEN {}
    ELSE {ExternalLink(link, course, "extern", None) :
            link \in {l \in {module.description[1][n] : n \in 1..Len(module.description[1])} :
                        /\ l \notin ignored_urls \cup static_bad_urls
                        /\ has_scheme_and_netloc(l)
                        /\ config.follow_links}}

(* lines 361-367 *)
add_file(acc, file, course) ==
    IF config.follow_links /\ file.type = "url"
    THEN [acc EXCEPT !.links = @ \cup {ExternalLink(file.fileurl, course, "extern", None)}]
    ELSE IF file.fileurl \in static_bad_urls THEN acc
    ELSE [acc EXCEPT !.all_content =
             Append(@, document_from_api(file.filename, file.fileurl, file.fileurl, course,
                                         file.timemodified, file.filepath, file.filesize))]

RECURSIVE add_files(_, _, _)
add_files(acc, contents, course) ==
    IF contents = <<>> THEN acc
    ELSE add_files(add_file(acc, Head(contents), course), Tail(contents), course)

(* lines 324-373: one module *)
add_module(acc, module, course) ==
    LET found == [acc EXCEPT !.links = @ \cup description_links(module, course)]
    IN  IF module.url = None THEN found
        ELSE IF module.url[1] \in ignored_urls \cup static_bad_urls THEN found
        ELSE IF isis_ignored(module.url[1]) THEN found
        ELSE IF module.contents = None THEN found
        ELSE add_files(found, module.contents[1], course)

RECURSIVE add_modules(_, _, _)
add_modules(acc, modules, course) ==
    IF modules = <<>> THEN acc
    ELSE add_modules(add_module(acc, Head(modules), course), Tail(modules), course)

(* lines 322-324: a week without "modules" raises KeyError *)
RECURSIVE add_weeks(_, _, _)
add_weeks(acc, content, course) ==
    IF content = <<>> THEN acc
    ELSE IF Head(content).modules = None THEN [acc EXCEPT !.raised = TRUE]
    ELSE add_weeks(add_modules(acc, Head(content).modules[1], course), Tail(content), course)

(* lines 314-375: the list returned, the links added, and whether it raised *)
download_documents(course) ==
    LET content == api.contents[course.course_id]
        nothing == [all_content |-> <<>>, links |-> {}, raised |-> FALSE]
    IN  IF content = None THEN nothing ELSE add_weeks(nothing, content[1], course)

(* line 594: the first of self.courses with that id *)
course_by_id(id) ==
    IF \E i \in 1..Len(courses) : courses[i].course_id = id
    THEN Some(courses[CHOOSE i \in 1..Len(courses) :
                        /\ courses[i].course_id = id
                        /\ \A j \in 1..(i - 1) : courses[j].course_id # id])
    ELSE None

(* lines 600-603: the attachments of one course's assignments *)
assignment_files(_course, course) ==
    flatten([a \in 1..Len(_course.assignments) |->
        [f \in 1..Len(_course.assignments[a].introattachments) |->
            LET file == _course.assignments[a].introattachments[f]
            IN  document_from_api(file.filename, file.fileurl, file.fileurl, course,
                                  file.timemodified, _course.assignments[a].name,
                                  file.filesize)]])

(* lines 584-605: the list returned, and whether it raised *)
download_mod_assign ==
    LET assignments == api.assignments
    IN  IF assignments = None THEN [all_content |-> <<>>, raised |-> FALSE]
        ELSE IF assignments[1].courses = None THEN [all_content |-> <<>>, raised |-> TRUE]
        ELSE [all_content |->
                flatten([n \in 1..Len(assignments[1].courses[1]) |->
                    LET _course == assignments[1].courses[1][n]
                    IN  IF course_by_id(_course.id) = None THEN <<>>
                        ELSE assignment_files(_course, course_by_id(_course.id)[1])]),
              raised |-> FALSE]

(* a sort that puts the oldest first *)
sort_oldest_first(lst) ==
    LET order == sorted(indices(lst), [i \in 1..Len(lst) |-> lst[i].time])
    IN  [n \in 1..Len(lst) |-> lst[order[n]]]

(* lines 576-577: sorted(lst, key=time, reverse=True), which keeps the order *)
(* of equal keys                                                            *)
sort(lst) ==
    LET order == sorted(indices(lst), [i \in 1..Len(lst) |-> 0 - lst[i].time])
    IN  [n \in 1..Len(lst) |-> lst[order[n]]]

in_videos(thing) == thing.media_type = "video"

in_documents(thing) == thing.media_type # "video"

(* lines 568-579 *)
all_files(documents, mod_assign, extern) ==
    sort((documents \o SelectSeq(extern, in_documents)) \o mod_assign)
        \o sort(SelectSeq(extern, in_videos))

(* lines 556-559 *)
uncached_external_links ==
    {item \in external_links :
        item.url \notin get_bad_urls /\ get_pre_container_by_url(item.url) = None}

----------------------------------------------------------------------------
(* RequestHelper.__new__ and __init__.  A session is known by the number   *)
(* of the SessionWithKey.from_scratch call that made it.                   *)

(* lines 429-430: the class before any construction *)
no_helper ==
    [_instance |-> None, _instance_init |-> FALSE, user |-> None, session |-> None,
     _meta_info |-> None, constructions |-> 0, authentications |-> 0,
     enumerations |-> 0, exited |-> FALSE, returned |-> None]

(* the class after one construction that completed *)
constructed_helper ==
    [no_helper EXCEPT !._instance = Some(1), !._instance_init = TRUE,
                      !.user = Some("user"), !.session = Some(1),
                      !._meta_info = Some([userid |-> "42"]), !.constructions = 1,
                      !.authentications = 1, !.enumerations = 1, !.returned = Some(1)]

Users == {"user", "other"}

(* what core_webservice_get_site_info answers *)
SiteInfos == {None, Some([userid |-> "42"])}

(* lines 456-460 *)
new_instance == IF helper._instance = None THEN Some(1) ELSE helper._instance

(* line 433: the class attribute read through the instance *)
instance_init == helper._instance_init

(* lines 432-460: RequestHelper(user).  from_scratch gave session (None:   *)
(* the process exits), the site info request gave info, the course request *)
(* gave res.  A request that gave None makes get_courses raise.            *)
construct(user, session, info, res) ==
    LET h == [helper EXCEPT !._instance = new_instance, !.returned = new_instance,
                            !.constructions = @ + 1]
    IN  IF instance_init
        THEN /\ helper' = h
             /\ UNCHANGED <<_courses, courses, course_id_mapping>>
        ELSE IF session = None
        THEN /\ helper' = [h EXCEPT !.user = Some(user), !.authentications = @ + 1,
                                    !.exited = TRUE, !.returned = None]
             /\ UNCHANGED <<_courses, courses, course_id_mapping>>
        ELSE IF info = None
        THEN /\ helper' = [h EXCEPT !.user = Some(user), !.authentications = @ + 1,
                                    !.session = Some(helper.authentications + 1),
                                    !._meta_info = None, !.returned = None]
             /\ _courses' = <<>>
             /\ courses' = <<>>
             /\ course_id_mapping' = {}
        ELSE /\ helper' = [h EXCEPT !.user = Some(user), !.authentications = @ + 1,
                                    !.session = Some(helper.authentications + 1),
                                    !._meta_info = info, !.enumerations = @ + 1,
                                    !._instance_init = (res # None),
                                    !.returned = IF res # None THEN new_instance ELSE None]
             /\ get_courses(res)

----------------------------------------------------------------------------
(* CourseDownloader: the batch pool, the watcher of opened files and the   *)
(* termination handler.  A MediaContainer is what the pipeline sees of it: *)
(* curr_size (None until a download has begun), done, the stop signal, and *)
(* how often each driver has called download on it.                        *)

new_file ==
    [curr_size |-> None, done |-> FALSE, stop |-> FALSE, active |-> 0,
     batch_calls |-> 0, stream_calls |-> 0, added |-> 0, reported |-> 0]

(* MediaContainer.download begins: the transfer starts *)
download_begin(file) ==
    [file EXCEPT !.curr_size = IF @ = None THEN Some(0) ELSE @, !.active = @ + 1]

(* MediaContainer.download ends: the transfer is complete, or was stopped *)
download_end(file) ==
    [file EXCEPT !.curr_size = IF file.stop THEN @ ELSE Some(1), !.done = TRUE,
                 !.active = @ - 1]

(* MediaContainer.download ends with an exception *)
download_raise(file) == [file EXCEPT !.active = @ - 1]

(* MediaContainer.stop *)
stop(file) == [file EXCEPT !.stop = TRUE]

idle_downloader ==
    [args |-> [stream |-> FALSE], is_windows |-> FALSE, media |-> <<>>,
     downloading_files |-> None, started |-> FALSE,
     pool |-> [k \in Workers |-> [pc |-> "idle", file |-> 0]],
     next |-> 1, downloader |-> "none", errors |-> 0, main |-> "start",
     watcher |-> [pc |-> "none", file |-> 0],
     handler |-> [pc |-> "none", stopped |-> 0, signalled |-> FALSE, polled |-> FALSE]]

(* what no step of CourseDownloader changes *)
download_frame == UNCHANGED <<resolver_vars, conflict_vars, course_vars, content_vars>>

(* lines 666-667: the files are published to the termination handler *)
set_downloading_files ==
    /\ cd.downloading_files = None
    /\ cd' = [cd EXCEPT !.downloading_files = Some(indices(cd.media))]
    /\ download_frame

(* a start that runs the batch thread in every mode *)
start_threads_batch_always ==
    /\ cd.downloading_files # None
    /\ ~cd.started
    /\ cd' = [cd EXCEPT !.started = TRUE,
                        !.watcher.pc = IF cd.is_windows THEN "returned" ELSE "loop",
                        !.downloader = "running",
                        !.main = IF cd.args.stream THEN "sleep" ELSE "join"]
    /\ download_frame

(* lines 670-694: the watcher thread starts, and the batch thread unless   *)
(* args.stream; stream_files returns at once on Windows (lines 705-706);   *)
(* the caller then sleeps for ever (args.stream) or joins the batch thread *)
start_threads ==
    /\ cd.downloading_files # None
    /\ ~cd.started
    /\ cd' = [cd EXCEPT !.started = TRUE,
                        !.watcher.pc = IF cd.is_windows THEN "returned" ELSE "loop",
                        !.downloader = IF cd.args.stream THEN "none" ELSE "running",
                        !.main = IF cd.args.stream THEN "sleep" ELSE "join"]
    /\ download_frame

(* line 696: downloader.join() returns, and start with it *)
start_returns ==
    /\ cd.main = "join"
    /\ cd.downloader = "finished"
    /\ cd' = [cd EXCEPT !.main = "returned"]
    /\ download_frame

(* a termination handler that skips nothing *)
shutdown_skipped_never == FALSE

(* lines 770-774 *)
shutdown_skipped == cd.downloading_files = None \/ cd.args.stream

(* lines 769-774: the handler is called *)
shutdown_running_downloads ==
    /\ cd.handler.pc = "none"
    /\ cd' = [cd EXCEPT !.handler.pc = IF shutdown_skipped THEN "returned" ELSE "stop"]
    /\ download_frame

(* the items the handler iterates over *)
downloading_items == IF cd.downloading_files = None THEN <<>> ELSE cd.downloading_files[1]

(* lines 776-777: item.stop() for the next item *)
shutdown_stop ==
    /\ cd.handler.pc = "stop"
    /\ cd' = IF cd.handler.stopped < Len(downloading_items)
             THEN [cd EXCEPT !.media[downloading_items[cd.handler.stopped + 1]] = stop(@),
                             !.handler.stopped = @ + 1, !.handler.signalled = TRUE]
             ELSE [cd EXCEPT !.handler.pc = "poll"]
    /\ download_frame

(* lines 780-781: one test of the loop *)
shutdown_poll ==
    /\ cd.handler.pc = "poll"
    /\ cd' = IF \A i \in 1..Len(downloading_items) : cd.media[downloading_items[i]].done
             THEN [cd EXCEPT !.handler.pc = "returned", !.handler.polled = TRUE]
             ELSE [cd EXCEPT !.handler.polled = TRUE]
    /\ download_frame

(* lines 744-753 and 760-765: a pool thread (the caller, without threads)  *)
(* takes the next file, registers it and calls download                    *)
download_take(k) ==
    /\ cd.downloader = "running"
    /\ cd.pool[k].pc = "idle"
    /\ settings.enable_multithread \/ k = CHOOSE j \in Workers : TRUE
    /\ cd.next <= Len(cd.media)
    /\ cd' = [cd EXCEPT !.next = @ + 1,
                        !.pool[k] = [pc |-> "download", file |-> cd.next],
                        !.media[cd.next] =
                            [download_begin(@) EXCEPT !.added = @ + 1,
                                                      !.batch_calls = @ + 1]]
    /\ download_frame

(* a worker whose exception leaves the task *)
download_uncaught(k) ==
    /\ cd.pool[k].pc = "download"
    /\ \/ cd' = [cd EXCEPT !.pool[k].pc = "report",
                           !.media[cd.pool[k].file] = download_end(@)]
       \/ cd' = [cd EXCEPT !.pool[k] = [pc |-> "idle", file |-> 0],
                           !.media[cd.pool[k].file] = download_raise(@)]
    /\ download_frame

(* lines 752-756: download returns, or raises and the exception is logged *)
download_return(k) ==
    /\ cd.pool[k].pc = "download"
    /\ \/ cd' = [cd EXCEPT !.pool[k].pc = "report",
                           !.media[cd.pool[k].file] = download_end(@)]
       \/ cd' = [cd EXCEPT !.pool[k].pc = "report", !.errors = @ + 1,
                           !.media[cd.pool[k].file] = download_raise(@)]
    /\ download_frame

(* line 758: status.done *)
download_report(k) ==
    /\ cd.pool[k].pc = "report"
    /\ cd' = [cd EXCEPT !.pool[k] = [pc |-> "idle", file |-> 0],
                        !.media[cd.pool[k].file].reported = @ + 1]
    /\ download_frame

(* lines 760-765: every file was handed out and every task is over *)
download_files_returns ==
    /\ cd.downloader = "running"
    /\ cd.next > Len(cd.media)
    /\ \A k \in Workers : cd.pool[k].pc = "idle"
    /\ cd' = [cd EXCEPT !.downloader = "finished"]
    /\ download_frame

(* lines 717-729: an open event: of a directory or of a path that is no    *)
(* file of the list (event = 0), or of file number event                   *)
process_IN_OPEN(event) ==
    /\ cd.watcher.pc = "loop"
    /\ event \in 1..Len(cd.media)
    /\ cd.media[event].curr_size = None
    /\ cd' = [cd EXCEPT !.watcher = [pc |-> "download", file |-> event]]
    /\ download_frame

(* lines 731-732: status.add_streaming and the call of download *)
stream_download ==
    /\ cd.watcher.pc = "download"
    /\ cd' = [cd EXCEPT !.watcher.pc = "downloading",
                        !.media[cd.watcher.file] =
                            [download_begin(@) EXCEPT !.stream_calls = @ + 1]]
    /\ download_frame

(* lines 732-733: download returns and the watcher goes on, or it raises   *)
(* and ends the watcher's loop                                             *)
stream_return ==
    /\ cd.watcher.pc = "downloading"
    /\ \/ cd' = [cd EXCEPT !.watcher = [pc |-> "loop", file |-> 0],
                           !.media[cd.watcher.file] = download_end(@)]
       \/ cd' = [cd EXCEPT !.watcher = [pc |-> "dead", file |-> 0],
                           !.media[cd.watcher.file] = download_raise(@)]
    /\ download_frame

----------------------------------------------------------------------------
(* States outside a specification's scope: no configuration choice, no     *)
(* download_content running.                                               *)

BaseConfig ==
    [whitelist |-> None, blacklist |-> None, follow_links |-> TRUE,
     download_videos |-> TRUE, make_subdirs |-> TRUE]

InitContent ==
    /\ settings = [enable_multithread |-> TRUE]
    /\ api = None
    /\ external_links = {}
    /\ dc = None

----------------------------------------------------------------------------
(* SpecConflicts: check_for_conflicts_in_files on any list of at most      *)
(* MaxFiles descriptors that differ in name, location and timestamp.       *)

n_notes_pdf == <<"notes", ".", "pdf">>

n_notes_0_pdf == <<"notes", ".", "0", ".", "pdf">>

n_readme == <<"README">>

n_bashrc == <<".", "bashrc">>

FileNames == {n_notes_pdf, n_notes_0_pdf, n_readme, n_bashrc}

Locations == {<<"algo", <<>>>>, <<"algo", <<"Extern">>>>}

Descriptors ==
    {PreMediaContainer(n, u_plain, u_plain, l, t, 5, "document", 4096) :
        n \in FileNames, l \in Locations, t \in Times}

InitResolver ==
    /\ bad_urls = {}
    /\ pre_containers = {}
    /\ w = [k \in Workers |-> idle_thread]
    /\ calls = 0
    /\ clock = 100

InitConflicts ==
    /\ InitResolver
    /\ files \in UNION {[1..n -> Descriptors] : n \in 0..MaxFiles}
    /\ files_before = files
    /\ checked = FALSE
    /\ InitContent
    /\ config = BaseConfig
    /\ _courses = <<>> /\ courses = <<>> /\ course_id_mapping = {}
    /\ helper = no_helper
    /\ cd = idle_downloader

CheckForConflicts ==
    /\ ~checked
    /\ files' = check_for_conflicts_in_files(files)
    /\ checked' = TRUE
    /\ UNCHANGED <<files_before, resolver_vars, course_vars, download_vars, content_vars>>

NextConflicts == CheckForConflicts

SpecConflicts == InitConflicts /\ [][NextConflicts]_vars

----------------------------------------------------------------------------
(* SpecCourses: get_courses under any whitelist and blacklist, with any    *)
(* answer of at most MaxRes courses.                                       *)

IdLists == {None} \cup {Some(ids) : ids \in SUBSET CourseIds}

Configs ==
    {[BaseConfig EXCEPT !.whitelist = wl, !.blacklist = bl] : wl \in IdLists, bl \in IdLists}

Answers ==
    {None} \cup {Some(res) : res \in UNION {[1..n -> CourseInfos] : n \in 0..MaxRes}}

InitCourses ==
    /\ InitResolver
    /\ files = <<>> /\ files_before = <<>> /\ checked = FALSE
    /\ InitContent
    /\ config \in Configs
    /\ _courses = <<>>
    /\ courses = <<>>
    /\ course_id_mapping = {}
    /\ helper = constructed_helper
    /\ cd = idle_downloader

GetCourses ==
    /\ \E res \in Answers : get_courses(res)
    /\ UNCHANGED <<config, helper, resolver_vars, conflict_vars, content_vars, download_vars>>

NextCourses == GetCourses

SpecCourses == InitCourses /\ [][NextCourses]_vars

----------------------------------------------------------------------------
(* SpecHelper: at most MaxConstructions constructions of RequestHelper,    *)
(* one after the other, with any answers.                                  *)

InitHelper ==
    /\ InitResolver
    /\ files = <<>> /\ files_before = <<>> /\ checked = FALSE
    /\ InitContent
    /\ config = BaseConfig
    /\ _courses = <<>> /\ courses = <<>> /\ course_id_mapping = {}
    /\ helper = no_helper
    /\ cd = idle_downloader

Construct ==
    /\ ~helper.exited
    /\ helper.constructions < MaxConstructions
    /\ \E user \in Users, session \in {None, Some(1)}, info \in SiteInfos, res \in Answers :
          construct(user, session, info, res)
    /\ UNCHANGED <<config, resolver_vars, conflict_vars, content_vars, download_vars>>

NextHelper == Construct

SpecHelper == InitHelper /\ [][NextHelper]_vars

----------------------------------------------------------------------------
(* SpecDownload: one run of CourseDownloader.start from the moment the     *)
(* files are known, with the termination handler called at any moment.     *)

MediaLists == {[i \in 1..n |-> new_file] : n \in 0..MaxMedia}

InitDownload ==
    /\ InitResolver
    /\ files = <<>> /\ files_before = <<>> /\ checked = FALSE
    /\ config = BaseConfig
    /\ _courses = <<>> /\ courses = <<>> /\ course_id_mapping = {}
    /\ helper = constructed_helper
    /\ settings \in [enable_multithread : BOOLEAN]
    /\ api = None
    /\ external_links = {}
    /\ dc = None
    /\ \E stream \in BOOLEAN, windows \in BOOLEAN, media \in MediaLists :
           cd = [idle_downloader EXCEPT !.args.stream = stream,
                                        !.is_windows = windows, !.media = media]

NextDownload ==
    \/ set_downloading_files
    \/ start_threads
    \/ start_returns
    \/ shutdown_running_downloads
    \/ shutdown_stop
    \/ shutdown_poll
    \/ \E k \in Workers : download_take(k)
    \/ \E k \in Workers : download_return(k)
    \/ \E k \in Workers : download_report(k)
    \/ download_files_returns
    \/ \E event \in 0..MaxMedia : process_IN_OPEN(event)
    \/ stream_download
    \/ stream_return

SpecDownload == InitDownload /\ [][NextDownload]_vars

----------------------------------------------------------------------------
(* Spec: the resolver alone, called by two threads with any links.         *)

Init ==
    /\ bad_urls = {}
    /\ pre_containers = {}
    /\ w = [k \in Workers |-> idle_thread]
    /\ calls = 0
    /\ clock \in Times
    /\ files = <<>> /\ files_before = <<>> /\ checked = FALSE
    /\ InitContent
    /\ config = BaseConfig
    /\ _courses = <<>> /\ courses = <<>> /\ course_id_mapping = {}
    /\ helper = no_helper
    /\ cd = idle_downloader

(* One url is under test in a behaviour: every call resolves the url of the *)
(* first call, with any course, media type and name.                        *)
Call(k) ==
    /\ calls < MaxCalls
    /\ calls' = calls + 1
    /\ \E link \in Links :
        /\ \A j \in Workers : w[j].url \in {<<>>, link.url}
        /\ from_extern_link(k, link)
    /\ UNCHANGED <<clock, conflict_vars, course_vars, download_vars, content_vars>>

(* time passes *)
Tick ==
    /\ \E t \in Times : t > clock /\ clock' = t
    /\ UNCHANGED <<bad_urls, pre_containers, w, calls, conflict_vars, course_vars, download_vars, content_vars>>

Lookup(k) == from_extern_link_lookup(k) /\ UNCHANGED <<calls, clock, conflict_vars, course_vars, download_vars, content_vars>>

PreProbe(k) == from_extern_link_pre_probe(k) /\ UNCHANGED <<calls, clock, conflict_vars, course_vars, download_vars, content_vars>>

Probe(k) == from_extern_link_probe(k, Responses) /\ UNCHANGED <<calls, clock, conflict_vars, course_vars, download_vars, content_vars>>

AddBadUrl(k) == from_extern_link_add_bad_url(k) /\ UNCHANGED <<calls, clock, conflict_vars, course_vars, download_vars, content_vars>>

Dump(k) == from_extern_link_dump(k) /\ UNCHANGED <<calls, clock, conflict_vars, course_vars, download_vars, content_vars>>

Next ==
    \/ \E k \in Workers :
        \/ Call(k)
        \/ Lookup(k)
        \/ PreProbe(k)
        \/ Probe(k)
        \/ AddBadUrl(k)
        \/ Dump(k)
    \/ Tick

Spec == Init /\ [][Next]_vars

----------------------------------------------------------------------------
(* SpecContent: one download_content over the enrolled courses, with the   *)
(* platform answering each request in any of the ways above and every      *)
(* probe answered in any way.  The course tasks, the assignment thread and *)
(* the resolver threads each take a step at a time.                        *)

idle_content ==
    [pc |-> "idle", task |-> <<>>, assign |-> "none", _documents |-> <<>>,
     mod_assign |-> <<>>, documents |-> <<>>, todo |-> {}, all_content |-> <<>>,
     failed |-> FALSE, probes |-> 0, probed |-> {}, num_uncached_external_links |-> 0,
     errors |-> 0]

MainThread == CHOOSE k \in Workers : TRUE

(* what a probe answers during a run: a document, a named video, a page, *)
(* and a document of unknown length                                      *)
ContentResponses ==
    {[ctype |-> Some(<<"application/", "pdf">>), cdisp |-> None, clen |-> Some(4096),
      lastmod |-> Some(50), text |-> None],
     [ctype |-> Some(<<"video/", "mp4">>), cdisp |-> Some(header_name), clen |-> Some(4096),
      lastmod |-> None, text |-> None],
     [ctype |-> Some(<<"text/", "html">>), cdisp |-> None, clen |-> None,
      lastmod |-> None, text |-> None],
     [ctype |-> Some(<<"application/", "pdf">>), cdisp |-> None, clen |-> None,
      lastmod |-> None, text |-> None]}

NothingFollowed ==
    [BaseConfig EXCEPT !.follow_links = FALSE, !.download_videos = FALSE,
                       !.make_subdirs = FALSE]

v_none == None

v_garbled == Some(VideoAnswer(TRUE, FALSE, <<>>))

v_error == Some(VideoAnswer(FALSE, TRUE, <<>>))

v_lectures == Some(VideoAnswer(FALSE, FALSE, <<v_lecture>>))

World(enrolment, configuration, contents, videos, assignments) ==
    [courses |-> enrolment, config |-> configuration,
     api |-> [contents |-> contents, videos |-> videos, assignments |-> assignments]]

(* one course, two documents, one link to a forum in a description *)
world_scenario ==
    World(<<course_5>>, BaseConfig, 5 :> Some(t_scenario), 5 :> v_none, None)

(* two courses with documents, an external document, the same video in both *)
world_two_courses ==
    World(<<course_5, course_7>>, BaseConfig,
          (5 :> Some(t_scenario)) @@ (7 :> Some(t_links)),
          (5 :> v_lectures) @@ (7 :> v_lectures), Some(a_homework))

(* two courses that link to the same url *)
world_same_link ==
    World(<<course_5, course_7>>, BaseConfig,
          (5 :> Some(t_links)) @@ (7 :> Some(t_links)),
          (5 :> v_error) @@ (7 :> v_none), None)

world_force ==
    World(<<course_5>>, BaseConfig, 5 :> Some(t_force), 5 :> v_error, Some(a_malformed))

world_drive ==
    World(<<course_5>>, BaseConfig, 5 :> Some(t_drive), 5 :> v_none, None)

(* answers that make the tasks raise *)
world_malformed ==
    World(<<course_5, course_7>>, BaseConfig,
          (5 :> Some(t_malformed)) @@ (7 :> Some(t_scenario)),
          (5 :> v_none) @@ (7 :> v_none), Some(a_homework))

(* a course whose video list cannot be read *)
world_garbled ==
    World(<<course_5>>, BaseConfig, 5 :> Some(t_scenario), 5 :> v_garbled, None)

world_nothing_followed ==
    World(<<course_5>>, NothingFollowed, 5 :> Some(t_links), 5 :> v_lectures,
          Some(a_homework))

world_no_courses == World(<<>>, BaseConfig, <<>>, <<>>, Some(a_homework))

Worlds ==
    {world_scenario, world_two_courses, world_same_link, world_force, world_drive,
     world_malformed, world_garbled, world_nothing_followed, world_no_courses}

InitContentRun ==
    /\ InitResolver
    /\ files = <<>> /\ files_before = <<>> /\ checked = FALSE
    /\ \E world \in Worlds :
        /\ config = world.config
        /\ courses = world.courses
        /\ api = world.api
    /\ _courses = courses
    /\ course_id_mapping = {<<courses[i].course_id, courses[i]>> : i \in 1..Len(courses)}
    /\ helper = constructed_helper
    /\ cd = idle_downloader
    /\ settings \in [enable_multithread : BOOLEAN]
    /\ external_links = {}
    /\ dc = idle_content

(* lines 504-551: the call, the assignment thread and the course tasks started. *)
(* ThreadPoolExecutor(0) raises ValueError.                                     *)
StartDownloadContent ==
    /\ dc.pc = "idle"
    /\ dc' = IF settings.enable_multithread /\ Len(courses) = 0
             THEN [dc EXCEPT !.pc = "raised", !.assign = "running"]
             ELSE [dc EXCEPT !.pc = "discover", !.assign = "running",
                       !.task = [i \in 1..Len(courses) |->
                                   IF settings.enable_multithread
                                   THEN "download_videos" ELSE "download_documents"],
                       !._documents = [i \in 1..Len(courses) |-> <<>>]]
    /\ UNCHANGED <<resolver_vars, conflict_vars, course_vars, download_vars, settings, api, external_links>>

(* lines 515-517: a course task calls download_videos *)
DownloadVideos(i) ==
    /\ dc.pc = "discover"
    /\ i \in 1..Len(dc.task)
    /\ dc.task[i] = "download_videos"
    /\ external_links' = external_links \cup download_videos(courses[i]).links
    /\ dc' = IF download_videos(courses[i]).raised
             THEN [dc EXCEPT !.task[i] = "done", !.errors = @ + 1]
             ELSE [dc EXCEPT !.task[i] = "download_documents"]
    /\ UNCHANGED <<resolver_vars, conflict_vars, course_vars, download_vars, settings, api>>

(* lines 518-527 and 551: download_documents of one course, in a task that  *)
(* catches what it raises or, without threads, in the caller after the      *)
(* assignments and the courses before it                                    *)
DownloadDocuments(i) ==
    /\ dc.pc = "discover"
    /\ i \in 1..Len(dc.task)
    /\ dc.task[i] = "download_documents"
    /\ settings.enable_multithread
       \/ (dc.assign = "done" /\ \A j \in 1..(i - 1) : dc.task[j] = "done")
    /\ external_links' = external_links \cup download_documents(courses[i]).links
    /\ dc' = IF ~download_documents(courses[i]).raised
             THEN [dc EXCEPT !.task[i] = "done",
                             !._documents[i] = download_documents(courses[i]).all_content]
             ELSE IF settings.enable_multithread
             THEN [dc EXCEPT !.task[i] = "done", !.errors = @ + 1]
             ELSE [dc EXCEPT !.pc = "raised"]
    /\ UNCHANGED <<resolver_vars, conflict_vars, course_vars, download_vars, settings, api>>

(* lines 529-537 and 550: download_mod_assign, in its thread or in the caller *)
DownloadModAssign ==
    /\ dc.assign = "running"
    /\ dc' = IF ~download_mod_assign.raised
             THEN [dc EXCEPT !.assign = "done", !.mod_assign = download_mod_assign.all_content]
             ELSE IF settings.enable_multithread
             THEN [dc EXCEPT !.assign = "done", !.errors = @ + 1]
             ELSE [dc EXCEPT !.pc = "raised", !.assign = "done"]
    /\ UNCHANGED <<resolver_vars, conflict_vars, course_vars, download_vars, settings, api, external_links>>

(* a download_extern that does not wait for the discovery tasks *)
DownloadExternEarly ==
    /\ dc.pc = "discover"
    /\ dc' = [dc EXCEPT !.pc = "extern",
                        !.documents = flatten(dc._documents),
                        !.num_uncached_external_links = @ + Cardinality(uncached_external_links),
                        !.todo = external_links]
    /\ UNCHANGED <<resolver_vars, conflict_vars, course_vars, download_vars, settings, api, external_links>>

(* lines 547-566 and 607-621: the tasks are joined, the uncached links are *)
(* counted, download_extern hands the links to its pool                   *)
DownloadExtern ==
    /\ dc.pc = "discover"
    /\ dc.assign = "done"
    /\ \A i \in 1..Len(dc.task) : dc.task[i] = "done"
    /\ dc' = [dc EXCEPT !.pc = "extern",
                        !.documents = flatten(dc._documents),
                        !.num_uncached_external_links = @ + Cardinality(uncached_external_links),
                        !.todo = external_links]
    /\ UNCHANGED <<resolver_vars, conflict_vars, course_vars, download_vars, settings, api, external_links>>

(* lines 610-611: add_extern_link calls the resolver, in a pool thread or, *)
(* without threads, in the caller                                          *)
AddExternLink(k) ==
    /\ dc.pc = "extern"
    /\ w[k].outcome = "none"
    /\ settings.enable_multithread
       \/ (k = MainThread /\ \A j \in Workers : w[j].outcome = "none")
    /\ \E link \in dc.todo :
        /\ from_extern_link(k, link)
        /\ dc' = [dc EXCEPT !.todo = @ \ {link}]
    /\ UNCHANGED <<calls, clock, conflict_vars, course_vars, download_vars, settings, api, external_links>>

(* lines 612-613: add_extern_link takes what the resolver returned.  What  *)
(* the resolver raised reaches the caller: at once without threads, and    *)
(* from the pool's map otherwise.                                          *)
AddExternLinkDone(k) ==
    /\ dc.pc = "extern"
    /\ w[k].pc = "idle"
    /\ w[k].outcome \in {"returned", "raised"}
    /\ w' = [w EXCEPT ![k] = idle_thread]
    /\ dc' = IF w[k].outcome = "returned"
             THEN [dc EXCEPT !.all_content = IF w[k].ret # None
                                             THEN Append(@, w[k].ret[1]) ELSE @,
                             !.probes = @ + w[k].probes,
                             !.probed = IF w[k].probes > 0 THEN @ \cup {w[k].url} ELSE @]
             ELSE IF settings.enable_multithread
             THEN [dc EXCEPT !.failed = TRUE,
                             !.probes = @ + w[k].probes,
                             !.probed = @ \cup {w[k].url}]
             ELSE [dc EXCEPT !.pc = "raised",
                             !.probes = @ + w[k].probes,
                             !.probed = @ \cup {w[k].url}]
    /\ UNCHANGED <<bad_urls, pre_containers, calls, clock, conflict_vars, course_vars, download_vars,
                   settings, api, external_links>>

(* line 621: the pool's map raises what a call raised; the calls not yet   *)
(* started are cancelled, the running ones are waited for                  *)
DownloadExternRaises ==
    /\ dc.pc = "extern"
    /\ dc.failed
    /\ \A k \in Workers : w[k].outcome = "none"
    /\ dc' = [dc EXCEPT !.pc = "raised"]
    /\ UNCHANGED <<resolver_vars, conflict_vars, course_vars, download_vars, settings, api, external_links>>

(* lines 566-582: the results are split, sorted, joined and renamed *)
ReturnAllFiles ==
    /\ dc.pc = "extern"
    /\ ~dc.failed
    /\ dc.todo = {}
    /\ \A k \in Workers : w[k].outcome = "none"
    /\ files_before' = all_files(dc.documents, dc.mod_assign, dc.all_content)
    /\ files' = check_for_conflicts_in_files(
                    all_files(dc.documents, dc.mod_assign, dc.all_content))
    /\ checked' = TRUE
    /\ dc' = [dc EXCEPT !.pc = "done"]
    /\ UNCHANGED <<resolver_vars, course_vars, download_vars, settings, api, external_links>>

(* lines 150-185 *)
ProbeContent(k) ==
    /\ from_extern_link_probe(k, ContentResponses)
    /\ UNCHANGED <<calls, clock, conflict_vars, course_vars, download_vars, content_vars>>

NextContent ==
    \/ StartDownloadContent
    \/ \E i \in 1..Len(courses) : DownloadVideos(i)
    \/ \E i \in 1..Len(courses) : DownloadDocuments(i)
    \/ DownloadModAssign
    \/ DownloadExtern
    \/ \E k \in Workers :
        \/ AddExternLink(k)
        \/ Lookup(k)
        \/ PreProbe(k)
        \/ ProbeContent(k)
        \/ AddBadUrl(k)
        \/ Dump(k)
        \/ AddExternLinkDone(k)
    \/ DownloadExternRaises
    \/ ReturnAllFiles
    \/ Tick

SpecContent == InitContentRun /\ [][NextContent]_vars

----------------------------------------------------------------------------
(* Properties of the resolver, checked under Spec *)

(* thread k leaves from_extern_link in this step *)
Returns(k) == w'[k] # w[k] /\ w'[k].pc = "idle"

(* C1: negative-cache permanence.  A url once marked bad stays marked, and *)
(* every call of from_extern_link on a url that is marked bad returns None *)
(* at once: no probe is issued and neither cache changes.                  *)
C1_NegativeCachePermanence ==
    [][/\ bad_urls \subseteq bad_urls'
       /\ \A k \in Workers :
            (w[k].pc = "idle" /\ w'[k] # w[k] /\ w'[k].url \in bad_urls)
            => /\ Returns(k)
               /\ w'[k].outcome = "returned"
               /\ w'[k].ret = None
               /\ w'[k].probes = 0
               /\ UNCHANGED <<bad_urls, pre_containers>>]_vars

(* a call on a plain url that was marked bad by the content-type gate      *)
(* earlier has returned None without a probe                               *)
C1_Witness ==
    \E k \in Workers :
        /\ w[k].pc = "idle" /\ w[k].outcome = "returned"
        /\ w[k].url = u_plain /\ u_plain \in bad_urls
        /\ w[k].ret = None /\ w[k].probes = 0

C10_DriveConfirmation ==
    [][\A k \in Workers :
         /\ (w[k].pc = "pre_probe" /\ w'[k].pc = "probe"
             /\ "Content-Disposition" \notin header_names(w'[k].response[1]))
            => /\ w'[k].target = temp_url(parse_google_drive_url(w[k].url)[1])
               /\ w'[k].download_url = w'[k].response[1].text[1]
         /\ (w[k].pc = "probe" /\ w'[k] # w[k] /\ w[k].temp # <<>>
             /\ "Content-Disposition" \notin header_names(w[k].response[1]))
            => /\ w'[k].target = w[k].response[1].text[1]
               /\ w'[k].probes = 2
         /\ (w[k].pc = "dump" /\ w'[k] # w[k] /\ w[k].temp # <<>>
             /\ w[k].target # w[k].temp)
            => /\ w'[k].ret = w[k].container
               /\ w[k].container[1].url = w[k].url
               /\ w[k].container[1].download_url = w[k].target
               /\ {row \in pre_containers' : row \notin pre_containers}
                    \subseteq {row \in pre_containers' : row[2] = w[k].url}
               /\ Cardinality({row \in pre_containers' : row[2] = w[k].url}) = 1
               /\ \E row \in pre_containers' :
                    row[2] = w[k].url /\ row[3] = w[k].target
               /\ \A row \in pre_containers' : row[2] \notin {w[k].target, w[k].temp}]_vars

(* a drive share url was resolved through its confirmation link and stored *)
C10_Witness ==
    \E k \in Workers :
        /\ w[k].pc = "idle" /\ w[k].outcome = "returned" /\ w[k].probes = 2
        /\ w[k].url = u_drive /\ w[k].ret # None
        /\ w[k].ret[1].download_url = confirm_url
        /\ \E row \in pre_containers : row[2] = u_drive /\ row[3] = confirm_url
        /\ Cardinality(pre_containers) = 1

(* thread k's content probe ends in this step *)
Probed(k) == w[k].pc = "probe" /\ w'[k] # w[k]

(* ... with a response *)
Answered(k) == w'[k].response # None \/ w'[k].outcome = "raised"

(* C17: content-probe failure is recorded as permanent.  When the content  *)
(* probe raises or yields no response, the resolution goes on to mark the  *)
(* url bad (or finds it marked) and returns no descriptor.                 *)
C17_ProbeFailureMarkedBad ==
    [][\A k \in Workers :
         (Probed(k) /\ ~Answered(k))
         => /\ w'[k].container = None /\ w'[k].ret = None
            /\ w'[k].pc = "add_bad_url" \/ w'[k].url \in bad_urls']_vars

(* the half that holds: a resolution that has found no response marks the  *)
(* url bad in its next step and returns None                               *)
C17_NoResponseMarkedBad ==
    [][\A k \in Workers :
         (w[k].pc = "add_bad_url" /\ w'[k] # w[k])
         => /\ w'[k].url \in bad_urls'
            /\ Returns(k) /\ w'[k].outcome = "returned" /\ w'[k].ret = None
            /\ UNCHANGED pre_containers]_vars

(* C18: the content-type gate.  An answered content probe either has an    *)
(* accepted Content-Type and the resolution goes on to store and return a  *)
(* descriptor, or it has none and the resolution goes on to mark the url   *)
(* bad and to return nothing.                                              *)
C18_ContentTypeGate ==
    [][\A k \in Workers :
         (Probed(k) /\ Answered(k))
         => \/ /\ w'[k].pc = "dump"
               /\ accepted(w'[k].response[1])
               /\ w'[k].container # None
            \/ /\ w'[k].pc = "add_bad_url"
               /\ ~accepted(w'[k].response[1])
               /\ w'[k].container = None]_vars

(* the direction that holds: a descriptor is stored and returned only for  *)
(* an accepted response, and a response that is not accepted gets the url  *)
(* marked bad                                                              *)
C18_OnlyAcceptedStored ==
    [][\A k \in Workers :
         /\ (Probed(k) /\ w'[k].pc = "dump") => accepted(w'[k].response[1])
         /\ (Probed(k) /\ w'[k].response # None /\ ~accepted(w'[k].response[1]))
               => w'[k].pc = "add_bad_url"
         /\ (w[k].pc = "dump" /\ w'[k] # w[k])
               => /\ Returns(k) /\ w'[k].ret = w[k].container
                  /\ get_pre_container_by_url(w[k].url)' # None
                  /\ UNCHANGED bad_urls]_vars

(* C22: last-modified derivation.  The descriptor built from an accepted   *)
(* response carries the timestamp of the Last-Modified header when the     *)
(* response has one, and the current time only when it has none.           *)
C22_LastModifiedFromHeader ==
    [][\A k \in Workers :
         (Probed(k) /\ w'[k].pc = "dump")
         => w'[k].container[1].time =
                IF "Last-Modified" \in header_names(w'[k].response[1])
                THEN w'[k].response[1].lastmod[1]
                ELSE clock]_vars

(* what the code gives: the current time, whatever the response says *)
C22_AlwaysCurrentTime ==
    [][\A k \in Workers :
         (Probed(k) /\ w'[k].pc = "dump") => w'[k].container[1].time = clock]_vars

(* C24: the positive and the negative cache stay disjoint.  No url has a   *)
(* stored descriptor and is marked bad.                                    *)
C24_CachesDisjoint == \A row \in pre_containers : row[2] \notin get_bad_urls

(* C28: probe connections are released.  When from_extern_link has been   *)
(* left, the response of the drive probe and the response of the content   *)
(* probe are closed.                                                       *)
C28_ConnectionsReleased ==
    \A k \in Workers : w[k].pc = "idle" => w[k].pre_con # "open" /\ w[k].con # "open"

(* what holds: every resolution that ends in a stored descriptor or in a   *)
(* marked url has closed what it opened                                    *)
C28_ReleasedAfterGate ==
    [][\A k \in Workers :
         (w[k].pc \in {"dump", "add_bad_url"} /\ Returns(k))
         => w'[k].pre_con # "open" /\ w'[k].con # "open"]_vars

(* a resolution of the drive url has returned None and left the response   *)
(* of the drive probe open                                                 *)
C28_DriveProbeLeftOpen ==
    \E k \in Workers :
        /\ w[k].pc = "idle" /\ w[k].outcome = "returned" /\ w[k].ret = None
        /\ w[k].url = u_drive /\ w[k].pre_con = "open"

(* the resolution of url stops in the drive branch in this step *)
DriveStep(k) ==
    /\ w'[k] # w[k]
    /\ contains(w[k].url, <<DRIVE, "/">>)
    /\ \/ w[k].pc = "pre_probe"
       \/ /\ w[k].pc = "get_pre_container"
          /\ get_pre_container_by_url(w[k].url) = None
          /\ ~isis_ignored(w[k].url)

(* C19: drive extraction failures are transient.  A resolution of a drive  *)
(* url that is in neither cache goes to the drive probe when the file id   *)
(* can be extracted, and from there to the content probe when the answer   *)
(* is the file or holds a confirmation link; in every other case it        *)
(* returns None at once.  None of these steps changes a cache, so the next *)
(* resolution of the url takes the same way again.                         *)
C19_DriveFailuresTransient ==
    [][\A k \in Workers :
         DriveStep(k)
         => /\ UNCHANGED <<bad_urls, pre_containers>>
            /\ IF w[k].pc = "get_pre_container"
               THEN IF parse_google_drive_url(w[k].url) # None
                    THEN w'[k].pc = "pre_probe"
                    ELSE Returns(k) /\ w'[k].outcome = "returned" /\ w'[k].ret = None
               ELSE \/ w'[k].pc = "probe"
                    \/ Returns(k) /\ w'[k].outcome = "returned" /\ w'[k].ret = None]_vars

(* three resolutions of the drive url: both threads have ended in a failed *)
(* drive probe, one of them for the second time, and both caches are empty *)
C19_Witness ==
    /\ calls >= 3
    /\ bad_urls = {} /\ pre_containers = {}
    /\ \A k \in Workers :
           /\ w[k].pc = "idle" /\ w[k].outcome = "returned" /\ w[k].ret = None
           /\ w[k].url = u_drive /\ w[k].probes = 1

----------------------------------------------------------------------------
(* Properties of check_for_conflicts_in_files, checked under SpecConflicts *)

(* the members of i's group: same name and same location before the pass *)
Group(i) ==
    {j \in 1..Len(files_before) :
        /\ files_before[j]._name = files_before[i]._name
        /\ files_before[j].location = files_before[i].location}

(* C3: after the pass no two descriptors of the list share both name and   *)
(* location.                                                               *)
C3_NoSharedNameAndLocation ==
    checked =>
        \A i, j \in 1..Len(files) :
            (i # j) => ~(files[i]._name = files[j]._name
                         /\ files[i].location = files[j].location)

(* C4: the members of a group of two or more are renamed to name.0.ext,    *)
(* name.1.ext, ..., the indices 0..n-1 each used once and ascending with   *)
(* the timestamp, placed before the extension; every other descriptor      *)
(* keeps its name; nothing but names changes.                              *)
C4_ConflictRenaming ==
    checked =>
        /\ Len(files) = Len(files_before)
        /\ \A i \in 1..Len(files) :
            /\ [files[i] EXCEPT !._name = files_before[i]._name] = files_before[i]
            /\ Cardinality(Group(i)) = 1 => files[i]._name = files_before[i]._name
            /\ Cardinality(Group(i)) > 1 =>
                \E n \in 0..(Cardinality(Group(i)) - 1) :
                    /\ files[i]._name =
                        splitext(files_before[i]._name)[1] \o <<".", str(n)>>
                            \o splitext(files_before[i]._name)[2]
                    /\ \A j \in Group(i) \ {i} :
                        /\ files[j]._name # files[i]._name
                        /\ files_before[j].time < files_before[i].time
                            => \E m \in 0..(n - 1) :
                                files[j]._name =
                                    splitext(files_before[j]._name)[1] \o <<".", str(m)>>
                                        \o splitext(files_before[j]._name)[2]

(* two notes.pdf of one directory, the newer one first in the list, came   *)
(* out as notes.1.pdf and notes.0.pdf, beside a notes.pdf of another       *)
(* directory that kept its name                                            *)
C4_Witness ==
    /\ checked
    /\ Len(files) = 3
    /\ files_before[1]._name = n_notes_pdf /\ files_before[2]._name = n_notes_pdf
    /\ files_before[3]._name = n_notes_pdf
    /\ files_before[1].location = files_before[2].location
    /\ files_before[3].location # files_before[1].location
    /\ files_before[1].time > files_before[2].time
    /\ files[1]._name = <<"notes", ".", "1", ".", "pdf">>
    /\ files[2]._name = <<"notes", ".", "0", ".", "pdf">>
    /\ files[3]._name = n_notes_pdf

----------------------------------------------------------------------------
(* Properties of Course.ok and get_courses, checked under SpecCourses *)

Policy(c) ==
    CASE config.whitelist = None /\ config.blacklist = None -> TRUE
      [] config.whitelist = None /\ config.blacklist # None -> c \notin config.blacklist[1]
      [] config.whitelist # None /\ config.blacklist = None -> c \in config.whitelist[1]
      [] config.whitelist # None /\ config.blacklist # None ->
            c \in config.whitelist[1] /\ c \notin config.blacklist[1]

Listed(list, course) == \E i \in 1..Len(list) : list[i] = course

(* C5: for every course id and every combination of whitelist and blacklist *)
(* being unset or set, Course.ok is true when neither is set, "not in the   *)
(* blacklist" when only the blacklist is set, "in the whitelist" when only  *)
(* the whitelist is set, and "in the whitelist and not in the blacklist"    *)
(* when both are set; get_courses includes a course exactly by that policy. *)
C5_InclusionPolicy ==
    /\ \A info \in CourseInfos : ok(from_dict(info)) = Policy(info.id)
    /\ \A i \in 1..Len(_courses) :
           Listed(courses, _courses[i]) = Policy(_courses[i].course_id)

(* whitelist = {5} and blacklist = {5}: course 5 is enrolled and excluded *)
C5_Witness ==
    /\ config.whitelist = Some({5})
    /\ config.blacklist = Some({5})
    /\ Listed(_courses, from_dict(info_5))
    /\ ~Listed(courses, from_dict(info_5))

(* C6: after every get_courses call, courses is a subset of _courses, it    *)
(* holds exactly the members of _courses whose inclusion policy is true,    *)
(* and both lists are sorted by ascending course_id.                        *)
C6_CoursesFilteredAndSorted ==
    /\ \A i \in 1..Len(courses) : Listed(_courses, courses[i])
    /\ courses = SelectSeq(_courses, ok)
    /\ \A i, j \in 1..Len(_courses) : i < j => _courses[i].course_id <= _courses[j].course_id
    /\ \A i, j \in 1..Len(courses) : i < j => courses[i].course_id <= courses[j].course_id

(* three enrolled courses of which one is excluded *)
C6_Witness ==
    /\ Len(_courses) = 3
    /\ Len(courses) = 2
    /\ _courses[1].course_id < _courses[2].course_id
    /\ _courses[2].course_id < _courses[3].course_id
    /\ courses[1].course_id < courses[2].course_id

----------------------------------------------------------------------------
(* Properties of download_content, checked under SpecContent *)

Count(seq, d) == Cardinality({i \in 1..Len(seq) : seq[i] = d})

Range(seq) == {seq[i] : i \in 1..Len(seq)}

Returned == dc.pc = "done"

(* C7: the list download_content returns is, before the renaming of         *)
(* conflicts, the bucket of course documents, assignments and non-video     *)
(* external results sorted by timestamp, newest first, followed by the      *)
(* bucket of videos sorted the same way; every video comes after every      *)
(* document whatever the timestamps.                                        *)
C7_Ordering ==
    Returned =>
        LET n == Len(files_before)
            video(i) == files_before[i].media_type = "video"
            found == (dc.documents \o dc.mod_assign) \o dc.all_content
        IN  /\ \A i, j \in 1..n : i < j /\ video(i) => video(j)
            /\ \A i, j \in 1..n :
                   i < j /\ video(i) = video(j) => files_before[i].time >= files_before[j].time
            /\ n = Len(found)
            /\ \A d \in Range(found) : Count(files_before, d) = Count(found, d)
            /\ \A i \in 1..n : files[i] = [files_before[i] EXCEPT !._name = files[i]._name]

(* documents of timestamps 300, 200 and 100 in that order, then a video     *)
(* newer than the last of them and an older video after a newer one         *)
C7_Witness ==
    /\ Returned
    /\ Len(files_before) >= 5
    /\ \E i, j, k \in 1..Len(files_before) :
          /\ i < j /\ j < k
          /\ files_before[i].time = 300 /\ files_before[j].time = 200
          /\ files_before[k].time = 100
          /\ files_before[k].media_type # "video"
          /\ \E v \in (k + 1)..(Len(files_before) - 1) :
                /\ files_before[v].media_type = "video"
                /\ files_before[v].time > files_before[k].time
                /\ files_before[v + 1].media_type = "video"
                /\ files_before[v + 1].time < files_before[v].time

Stripped(url) == SubSeq(url, 1, Len(url) - 1)

Forced(url) == url # <<>> /\ url[Len(url)] = forcedownload

(* the descriptors document_from_api has produced so far *)
ApiDescriptors == Range(flatten(dc._documents)) \cup Range(dc.mod_assign)

(* from_extern_link: the container built from a probe of a url that ends in *)
(* the suffix carries that url without the suffix, and so does its row      *)
ExternSuffixStripped ==
    /\ \A k \in Workers :
          w[k].container # None /\ w[k].probes > 0 /\ Forced(w[k].target) =>
              /\ w[k].container[1].download_url = Stripped(w[k].target)
              /\ w[k].outcome = "returned" =>
                    /\ w[k].ret = w[k].container
                    /\ \E row \in pre_containers :
                          row[2] = w[k].url /\ ~Forced(row[3])
    /\ \A row \in pre_containers : ~Forced(row[3])
    /\ \A i \in 1..Len(dc.all_content) : ~Forced(dc.all_content[i].download_url)

(* C8 as stated: every descriptor of from_extern_link or document_from_api  *)
(* whose download url ended in "?forcedownload=1" carries a download_url    *)
(* with that suffix removed when it is stored or returned.                  *)
C8_SuffixStrippedEverywhere ==
    /\ ExternSuffixStripped
    /\ \A d \in ApiDescriptors : \A file \in DocumentFiles :
          d._name = file.filename /\ d.size = file.filesize /\ Forced(file.fileurl) =>
              d.download_url = Stripped(file.fileurl)

(* C8, amended: from_extern_link strips the suffix from the download url;   *)
(* document_from_api strips it from the source url and leaves the download  *)
(* url as it was given.                                                     *)
C8_SuffixStripping ==
    /\ ExternSuffixStripped
    /\ \A d \in ApiDescriptors : \A file \in DocumentFiles :
          d._name = file.filename /\ d.size = file.filesize /\ Forced(file.fileurl) =>
              /\ d.url = Stripped(file.fileurl)
              /\ d.download_url = file.fileurl

(* a platform document whose download url keeps the suffix, next to a       *)
(* resolved link whose download url lost it                                 *)
C8_Witness ==
    /\ \E d \in ApiDescriptors : Forced(d.download_url) /\ d.url = Stripped(d.download_url)
    /\ \E k \in Workers :
          /\ w[k].outcome = "returned"
          /\ w[k].ret # None
          /\ w[k].probes > 0
          /\ Forced(w[k].target)
          /\ w[k].ret[1].download_url = Stripped(w[k].target)
          /\ w[k].ret[1].url = w[k].target

DenyUrls == {u_forum}

(* the run of the scenario: one course, two platform documents, one link to *)
(* a denied url in a description, nothing else                              *)
Scenario ==
    /\ Len(courses) = 1
    /\ Len(dc.documents) = 2
    /\ dc.mod_assign = <<>>
    /\ external_links # {}
    /\ \A link \in external_links : link.url \in DenyUrls

(* C9: a link whose url matches the deny pattern and is not cached causes   *)
(* no probe during download_content; the resolver marks it bad and yields   *)
(* no descriptor; a course with two platform documents and one such link    *)
(* yields exactly 2 descriptors with 0 probes.                              *)
C9_DenyPatternPruning ==
    /\ \A k \in Workers :
          w[k].url \in DenyUrls =>
              /\ w[k].probes = 0
              /\ w[k].container = None
              /\ w[k].ret = None
              /\ w[k].outcome = "returned" => w[k].url \in bad_urls
    /\ DenyUrls \cap dc.probed = {}
    /\ \A i \in 1..Len(dc.all_content) : dc.all_content[i].url \notin DenyUrls
    /\ Returned =>
          /\ \A link \in external_links : link.url \in DenyUrls => link.url \in bad_urls
          /\ \A i \in 1..Len(files) : files[i].url \notin DenyUrls
          /\ Scenario => Len(files) = 2 /\ dc.probes = 0

(* the scenario has returned its two documents and marked the link bad *)
C9_Witness ==
    /\ Returned
    /\ Scenario
    /\ Len(files) = 2
    /\ dc.probes = 0
    /\ u_forum \in bad_urls
    /\ pre_containers = {}

----------------------------------------------------------------------------
(* Properties of the pools of download_content, checked under SpecContent *)

(* C11: a failure inside from_extern_link never crosses the pool of         *)
(* download_extern: once the links are handed out, download_content does    *)
(* not raise, whatever a resolution raised.                                 *)
C11_ExternFailuresContained ==
    [][settings.enable_multithread /\ dc.pc = "extern" => dc'.pc # "raised"]_vars

(* whether the task of course i raises, in download_videos or in            *)
(* download_documents                                                       *)
TaskRaises(i) ==
    download_videos(courses[i]).raised \/ download_documents(courses[i]).raised

(* C12: a course whose discovery raises contributes an empty list and the   *)
(* descriptors of the other courses and of the assignments stay part of     *)
(* the result: once the assignments are in, no failure of a course's        *)
(* discovery makes download_content raise.                                  *)
C12_DiscoveryFailureIsolated ==
    [][dc.pc = "discover" /\ dc.assign = "done" => dc'.pc # "raised"]_vars

(* what does hold: with the course tasks in their pool, a course whose      *)
(* discovery raises contributes an empty list, the error is logged, and     *)
(* the descriptors of every other course and of the assignment task are     *)
(* part of the result                                                       *)
C12_IsolatedInTasks ==
    settings.enable_multithread =>
        /\ dc.pc = "raised" => Len(courses) = 0 \/ dc.failed
        /\ \A i \in 1..Len(dc.task) :
              dc.task[i] = "done" =>
                  dc._documents[i] = IF TaskRaises(i) THEN <<>>
                                     ELSE download_documents(courses[i]).all_content
        /\ dc.pc \in {"extern", "done"} =>
              /\ dc.errors = Cardinality({i \in 1..Len(courses) : TaskRaises(i)})
                              + (IF download_mod_assign.raised THEN 1 ELSE 0)
              /\ dc.mod_assign = download_mod_assign.all_content
        /\ Returned =>
              \A i \in 1..Len(courses) :
                  ~TaskRaises(i) =>
                      \A d \in Range(download_documents(courses[i]).all_content) :
                          d \in Range(files_before)

(* download_content has returned the documents of one course and the        *)
(* assignments although the task of another course raised                   *)
C12_IsolatedInTasksReached ==
    /\ settings.enable_multithread
    /\ Returned
    /\ \E i, j \in 1..Len(courses) :
          /\ download_documents(courses[i]).raised
          /\ dc._documents[i] = <<>>
          /\ ~TaskRaises(j)
          /\ dc._documents[j] # <<>>
          /\ \A d \in Range(dc._documents[j]) : d \in Range(files_before)
    /\ dc.mod_assign # <<>>
    /\ \A d \in Range(dc.mod_assign) : d \in Range(files_before)
    /\ dc.errors = 1

----------------------------------------------------------------------------
(* Properties of RequestHelper's construction, checked under SpecHelper *)

(* C13: across any sequence of constructions every construction returns the *)
(* same instance, authentication and course enumeration run at most once,   *)
(* and a construction after the first completed one leaves session,         *)
(* courses and _courses unchanged.                                          *)
C13_SingletonCatalog ==
    /\ helper.returned # None => helper.returned = Some(1)
    /\ helper.authentications <= 1
    /\ helper.enumerations <= 1

(* what does hold: one instance, and nothing runs again once a              *)
(* construction has completed                                               *)
C13_NothingAfterCompletion ==
    [][helper._instance_init =>
          /\ helper'.session = helper.session
          /\ helper'.authentications = helper.authentications
          /\ helper'.enumerations = helper.enumerations
          /\ helper'.returned = helper._instance
          /\ UNCHANGED <<_courses, courses>>]_vars

----------------------------------------------------------------------------
(* C14: cooperative shutdown.  The handler passes its first two tests only *)
(* when the file list is set and args.stream is off; in stream-only mode   *)
(* and while the list is not set no file carries the stop signal; when the *)
(* handler polls, stop was called on every file; and when it has returned  *)
(* after polling, every file reports done.                                 *)
C14_CooperativeShutdown ==
    /\ cd.handler.pc \in {"stop", "poll"} =>
           cd.downloading_files # None /\ ~cd.args.stream
    /\ cd.args.stream \/ cd.downloading_files = None =>
           /\ \A i \in 1..Len(cd.media) : ~cd.media[i].stop
           /\ ~cd.handler.polled
    /\ cd.handler.pc = "poll" => \A i \in 1..Len(cd.media) : cd.media[i].stop
    /\ cd.handler.pc = "returned" /\ cd.handler.polled =>
           \A i \in 1..Len(cd.media) : cd.media[i].stop /\ cd.media[i].done

(* the handler stopped two files, one of them in the middle of its         *)
(* transfer, waited for them and returned                                  *)
C14_Witness ==
    /\ cd.handler.pc = "returned"
    /\ cd.handler.polled
    /\ Len(cd.media) >= 2
    /\ \E i \in 1..Len(cd.media) : cd.media[i].curr_size = Some(0)

(* the handler was called in stream-only mode while the watcher was        *)
(* downloading, and returned                                               *)
C14_SkippedReached ==
    /\ cd.handler.pc = "returned"
    /\ cd.args.stream
    /\ cd.watcher.pc = "downloading"

----------------------------------------------------------------------------
(* C20: per-file failure isolation in the download pool.  The pool never   *)
(* calls download twice on a file nor reports a file twice, a file is      *)
(* reported once its download has returned or raised, and when             *)
(* download_files returns, download was called exactly once on every file  *)
(* of the list and every file was reported done to the status exactly      *)
(* once, whatever raised.                                                  *)
C20_DownloadPoolIsolation ==
    /\ \A i \in 1..Len(cd.media) :
           /\ cd.media[i].batch_calls <= 1
           /\ cd.media[i].added = cd.media[i].batch_calls
           /\ cd.media[i].reported <= cd.media[i].batch_calls
           /\ cd.media[i].reported < cd.media[i].batch_calls =>
                  \E k \in Workers : cd.pool[k].file = i
    /\ cd.downloader = "finished" =>
           \A i \in 1..Len(cd.media) :
               cd.media[i].batch_calls = 1 /\ cd.media[i].reported = 1

(* download_files has returned; the download of one file raised and the    *)
(* file after it was downloaded completely                                 *)
C20_Witness ==
    /\ cd.downloader = "finished"
    /\ cd.errors >= 1
    /\ \E i, j \in 1..Len(cd.media) :
           /\ i < j
           /\ ~cd.media[i].done
           /\ cd.media[j].curr_size = Some(1) /\ cd.media[j].done

----------------------------------------------------------------------------
(* C16: at most one download per file.  Over the pool and the watcher      *)
(* together, download is called at most once on every file.                *)
C16_AtMostOneDownload ==
    \A i \in 1..Len(cd.media) : cd.media[i].batch_calls + cd.media[i].stream_calls <= 1

(* the watcher calls download only on a file that had no size when it was  *)
(* opened, and never twice on a file                                       *)
C16_WatcherOnFirstOpen ==
    /\ \A i \in 1..Len(cd.media) : cd.media[i].stream_calls <= 1
    /\ cd.watcher.pc = "downloading" => cd.media[cd.watcher.file].stream_calls = 1

----------------------------------------------------------------------------
(* Properties of the two modes of download_content, checked under          *)
(* SpecContent                                                             *)

(* the links the task of course i adds to external_links (lines 515-527)   *)
TaskLinks(i) ==
    download_videos(courses[i]).links
    \cup (IF download_videos(courses[i]).raised THEN {}
          ELSE download_documents(courses[i]).links)

(* discovery is over and download_content went on *)
Discovered == dc # None /\ dc.pc \in {"extern", "done"}

(* what the algorithm of the course tasks gives: discovery does not raise  *)
(* because of a course, every course failure is logged, and after          *)
(* discovery external_links holds the video links and the document links   *)
(* of every course                                                         *)
AsCourseTasks ==
    /\ Discovered =>
           /\ external_links = UNION {TaskLinks(i) : i \in 1..Len(courses)}
           /\ dc.errors >= Cardinality({i \in 1..Len(courses) : TaskRaises(i)})
    /\ dc # None /\ dc.pc = "raised" /\ dc.assign = "done" /\ dc.todo = {} /\ ~dc.failed =>
           \A i \in 1..Len(courses) : ~TaskRaises(i)

(* C15: sequential and concurrent modes are the same algorithm.  With      *)
(* multithreading disabled download_content adds the same external links,  *)
(* the video links of every course included, and handles the failure of a  *)
(* course in the same way as the course tasks of the concurrent mode.      *)
C15_SequentialAsConcurrent == ~settings.enable_multithread => AsCourseTasks

(* the concurrent mode itself *)
C15_ConcurrentMode == settings.enable_multithread => AsCourseTasks

(* a concurrent run with video links and a failed course got past discovery *)
C15_ConcurrentModeReached ==
    /\ settings.enable_multithread
    /\ Discovered
    /\ \E i \in 1..Len(courses) : download_videos(courses[i]).links # {}

----------------------------------------------------------------------------
(* C21: stream-only mode.  With args.stream the batch thread is never      *)
(* started, the pool calls download on no file, every download is the      *)
(* watcher's, and start does not return; without it start returns only     *)
(* when download_files has returned, after one download call and one       *)
(* report for every file.                                                  *)
C21_StreamOnly ==
    /\ cd.args.stream =>
           /\ cd.downloader = "none"
           /\ cd.main # "returned"
           /\ \A i \in 1..Len(cd.media) :
                  /\ cd.media[i].batch_calls = 0
                  /\ cd.media[i].curr_size # None => cd.media[i].stream_calls >= 1
    /\ cd.main = "returned" =>
           /\ ~cd.args.stream
           /\ cd.downloader = "finished"
           /\ \A i \in 1..Len(cd.media) :
                  cd.media[i].batch_calls = 1 /\ cd.media[i].reported = 1

(* in stream-only mode the caller sleeps and an opened file was downloaded *)
(* by the watcher                                                          *)
C21_Witness ==
    /\ cd.args.stream
    /\ cd.main = "sleep"
    /\ \E i \in 1..Len(cd.media) : cd.media[i].done /\ cd.media[i].stream_calls = 1

(* without the flag start has returned after two files *)
C21_ReturnedReached ==
    /\ ~cd.args.stream
    /\ cd.main = "returned"
    /\ Len(cd.media) >= 2

----------------------------------------------------------------------------
(* C23: phase ordering in download_content.  The resolver takes a step     *)
(* only when the assignment task and every course task have finished; and  *)
(* the conflict pass runs once, in one step, when no link is left, no      *)
(* resolution is running and every result was taken, over the merged and   *)
(* sorted list.                                                            *)
C23_PhaseOrdering ==
    [][/\ w' # w =>
            /\ dc.pc = "extern"
            /\ dc.assign = "done"
            /\ \A i \in 1..Len(dc.task) : dc.task[i] = "done"
       /\ (checked' # checked \/ files' # files \/ files_before' # files_before) =>
            /\ ~checked /\ checked'
            /\ dc.pc = "extern" /\ dc.todo = {}
            /\ \A k \in Workers : w[k] = idle_thread
            /\ files_before' = all_files(dc.documents, dc.mod_assign, dc.all_content)
            /\ files' = check_for_conflicts_in_files(files_before')]_vars

(* the conflict pass has run after two courses were crawled and two links  *)
(* were resolved to descriptors                                            *)
C23_Witness ==
    /\ dc # None /\ dc.pc = "done" /\ checked
    /\ Len(courses) >= 2
    /\ Len(dc.all_content) >= 2
    /\ Len(dc.documents) >= 1 /\ Len(dc.mod_assign) >= 1

----------------------------------------------------------------------------
(* C25: one descriptor per source url in the result.  The list that        *)
(* download_content returns holds no two descriptors with the same url.    *)
C25_OneDescriptorPerUrl ==
    checked => \A i, j \in 1..Len(files) : files[i].url = files[j].url => i = j

(* what holds: an ExternalLink value gives at most one descriptor, so a    *)
(* url is in the external results at most as often as it was discovered    *)
C25_OneDescriptorPerLink ==
    dc # None =>
        \A u \in Urls :
            Cardinality({i \in 1..Len(dc.all_content) : dc.all_content[i].url = u})
                <= Cardinality({link \in external_links : link.url = u})

(* the url that two courses link to is twice in the returned list: once    *)
(* for each of its two ExternalLink values                                 *)
C25_SameUrlTwiceReached ==
    /\ checked
    /\ Cardinality({link \in external_links : link.url = u_plain}) = 2
    /\ Cardinality({i \in 1..Len(files) : files[i].url = u_plain}) = 2

----------------------------------------------------------------------------
(* the call of download_extern is over: it returned or it raised *)
ExternOver ==
    /\ dc # None
    /\ dc.pc \in {"done", "raised"}
    /\ dc.assign = "done"
    /\ Len(dc.task) >= 1
    /\ \A i \in 1..Len(dc.task) : dc.task[i] = "done"

(* C26: no lost results in the resolution pool.  When a call of            *)
(* download_extern is over, every ExternalLink of the set was passed to    *)
(* the resolver, and the list holds one entry for every descriptor the     *)
(* resolver returned.                                                      *)
C26_NoLostResults ==
    ExternOver =>
        /\ dc.todo = {}
        /\ \A k \in Workers : w[k].outcome = "none"
        /\ dc.pc = "done"

(* what holds: when download_extern returns, every link was passed to the  *)
(* resolver once, and every entry of the list is the descriptor of a link  *)
C26_NoneLostWhenReturned ==
    dc # None /\ dc.pc = "done" =>
        /\ dc.todo = {}
        /\ Len(dc.all_content) <= Cardinality(external_links)
        /\ \A i \in 1..Len(dc.all_content) :
               \E link \in external_links :
                   /\ dc.all_content[i].url = link.url
                   /\ \/ dc.all_content[i].course_id = link.course.course_id
                      \/ \E other \in external_links : other.url = link.url /\ other # link

----------------------------------------------------------------------------
(* C27: the empty course set.  With threads and no course, a call of       *)
(* download_content does not raise, and when it has returned the           *)
(* assignment thread was joined and the list holds the assignment files    *)
(* and the external results only.                                          *)
C27_EmptyCourseSet ==
    (settings.enable_multithread /\ dc # None /\ courses = <<>> /\ dc.pc # "idle") =>
        /\ dc.pc # "raised"
        /\ dc.pc = "done" =>
               /\ dc.assign = "done"
               /\ files_before = all_files(<<>>, dc.mod_assign, dc.all_content)

(* without threads the same call returns the assignment files *)
C27_SequentialEmptyReached ==
    /\ ~settings.enable_multithread
    /\ dc # None /\ courses = <<>> /\ dc.pc = "done"
    /\ files = dc.mod_assign

====
